---- MODULE Spec2Model ----
(***************************************************************************)
(* The Liqueur package manager (src/Liqueur.py): the install / uninstall   *)
(* life cycle over the packages directory, the registry file packages.json *)
(* and the Windows autostart key.                                          *)
(*                                                                         *)
(* Strings are sequences of tokens, a token being a piece of text that the *)
(* code never looks inside ("github.com", "Liqueur-Manager", "A") or one   *)
(* of the separators it does look for ("/", "https:", "temp_", "-main").   *)
(* startswith, endswith, strip, split and the concatenations of the code   *)
(* are computed on these sequences.                                        *)
(*                                                                         *)
(* Liqueur.py imports winreg (line 13), so the program runs on Windows     *)
(* only: platform.system() is "Windows" throughout.                        *)
(***************************************************************************)
EXTENDS Integers, Sequences, FiniteSets, TLC

VARIABLES
    fs,         \* directories under PACKAGES_DIR: name -> content
    zips,       \* archive files "<staging>.zip" present under PACKAGES_DIR
    regfile,    \* packages.json: [state, map]
    autostart,  \* values under the autorun registry key (application names)
    remote,     \* what the archive endpoint serves: repository -> option file
    stack,      \* per invocation of the tool: its call stack, innermost last
    call,       \* per invocation: the command line it was started with
    out,        \* per invocation: what it printed and which collaborators it called
    pre,        \* per invocation: fs, zips, registry and autostart as it started
    nops        \* invocations started so far

vars == <<fs, zips, regfile, autostart, remote, stack, call, out, pre, nops>>

(***************************************************************************)
(* Bounds of the model.                                                    *)
(***************************************************************************)
MaxOps == 2
MaxDepth == 5

(***************************************************************************)
(* Strings.                                                                *)
(***************************************************************************)
StartsWith(s, p) == Len(s) >= Len(p) /\ SubSeq(s, 1, Len(p)) = p

EndsWith(s, p) == Len(s) >= Len(p) /\ SubSeq(s, Len(s) - Len(p) + 1, Len(s)) = p

\* str.strip("/")
RECURSIVE LStrip(_)
LStrip(s) == IF s # <<>> /\ Head(s) = "/" THEN LStrip(Tail(s)) ELSE s

RECURSIVE RStrip(_)
RStrip(s) == IF s # <<>> /\ s[Len(s)] = "/" THEN RStrip(SubSeq(s, 1, Len(s) - 1)) ELSE s

StripSlash(s) == RStrip(LStrip(s))

\* str.split("/"): the pieces between the "/" tokens, empty pieces included
RECURSIVE SplitFrom(_, _, _)
SplitFrom(s, cur, acc) ==
    IF s = <<>> THEN Append(acc, cur)
    ELSE IF Head(s) = "/" THEN SplitFrom(Tail(s), <<>>, Append(acc, cur))
    ELSE SplitFrom(Tail(s), Append(cur, Head(s)), acc)

SplitSlash(s) == SplitFrom(s, <<>>, <<>>)

\* str.lower() on the tokens whose case the code inspects
LowerToken(t) ==
    CASE t = "Python" -> "python"
      [] t = "PyQt6" -> "pyqt6"
      [] t = "RM" -> "rm"
      [] OTHER -> t

Lower(s) == [i \in DOMAIN s |-> LowerToken(s[i])]

(***************************************************************************)
(* Optional values (None or a string) and the truthiness `or` tests.       *)
(***************************************************************************)
None == [some |-> FALSE, v |-> <<>>]

Some(s) == [some |-> TRUE, v |-> s]

Truthy(o) == o.some /\ o.v # <<>>

(***************************************************************************)
(* Configuration, Liqueur.py lines 18-22.                                  *)
(***************************************************************************)
ALLOWED_ORG == <<"Liqueur-Manager">>

BASE_GITHUB_URL == <<"https:", "/", "/", "github.com">>

\* urlparse(url).netloc of an http(s) URL: what follows "//" up to the next "/"
RECURSIVE UpToSlash(_)
UpToSlash(s) == IF s = <<>> \/ Head(s) = "/" THEN <<>> ELSE <<Head(s)>> \o UpToSlash(Tail(s))

HasAuthority(url) == Len(url) >= 3 /\ url[2] = "/" /\ url[3] = "/"

UrlNetloc(url) == IF HasAuthority(url) THEN UpToSlash(SubSeq(url, 4, Len(url))) ELSE <<>>

\* urlparse(url).path: from the "/" that ends the netloc to the end
UrlPath(url) ==
    IF HasAuthority(url)
    THEN SubSeq(url, 4 + Len(UrlNetloc(url)), Len(url))
    ELSE Tail(url)

\* faulty variant: the host is checked, the organization is not
validate_repo_url_host_only(repo_url) == EndsWith(UrlNetloc(repo_url), <<"github.com">>)

\* lines 270-276
validate_repo_url(repo_url) ==
    /\ EndsWith(UrlNetloc(repo_url), <<"github.com">>)
    /\ SplitSlash(StripSlash(UrlPath(repo_url)))[1] = ALLOWED_ORG

normalize_repo_url(repo_input) ==
    IF StartsWith(repo_input, <<"http:", "/", "/">>) \/ StartsWith(repo_input, <<"https:", "/", "/">>)
    THEN repo_input
    ELSE BASE_GITHUB_URL \o <<"/">> \o ALLOWED_ORG \o <<"/">> \o repo_input

\* repo_url.split("/")[-1]
RepoNameOf(repo_url) == SplitSlash(repo_url)[Len(SplitSlash(repo_url))]

\* PACKAGES_DIR / f"temp_{repo_name}"
TempDir(repo_name) == <<"temp_">> \o repo_name

\* target_dir.parent / f"{repo_name}-main"
ExtractedDir(repo_name) == repo_name \o <<"-main">>

\* the URL download_repo requests
DownloadUrl(repo_name) ==
    BASE_GITHUB_URL \o <<"/">> \o ALLOWED_ORG \o <<"/">> \o repo_name
        \o <<"/", "archive", "/", "refs", "/", "heads", "/", "main.zip">>

(***************************************************************************)
(* JSON values as json.loads returns them: a list of entries, or something *)
(* that is not a list. An entry is a string or not a string.               *)
(***************************************************************************)
JStr(s) == [t |-> "str", v |-> s]

JNum == [t |-> "num", v |-> <<>>]

JList(items) == [t |-> "list", items |-> items]

JNotList == [t |-> "num", items |-> <<>>]

(***************************************************************************)
(* option.txt: raw lines. A line is described by what the parser can see   *)
(* of it: tag "name" is Name:"s", "file" is File:"s", "bool" is a token    *)
(* holding "true" (b) or not, "json" is a JSON text of value j, "junk" is  *)
(* any other text, "comment" is a line holding only a # comment, "blank"   *)
(* is white space.                                                         *)
(***************************************************************************)
Line(tag, s, b, j) == [tag |-> tag, s |-> s, b |-> b, j |-> j]

NameLine(s) == Line("name", s, FALSE, JNotList)

FileLine(s) == Line("file", s, FALSE, JNotList)

BoolLine(b) == Line("bool", <<>>, b, JNotList)

JsonLine(j) == Line("json", <<>>, FALSE, j)

JunkLine == Line("junk", <<>>, FALSE, JNotList)

CommentLine == Line("comment", <<>>, FALSE, JNotList)

BlankLine == Line("blank", <<>>, FALSE, JNotList)

\* [... for line in f.readlines() if line.strip()]: blank lines are dropped
\* before the comment is cut off, so a comment-only line stays, as empty text
RECURSIVE NonBlank(_)
NonBlank(raw) ==
    IF raw = <<>> THEN <<>>
    ELSE IF Head(raw).tag = "blank" THEN NonBlank(Tail(raw))
    ELSE <<Head(raw)>> \o NonBlank(Tail(raw))

CutComment(l) == IF l.tag = "comment" THEN JunkLine ELSE l

Lines(raw) == [i \in DOMAIN NonBlank(raw) |-> CutComment(NonBlank(raw)[i])]

\* "true" in line.lower()
HasTrue(l) == l.tag = "bool" /\ l.b

\* json.loads(line) does not raise
JsonOk(l) == l.tag = "json"

DefaultOptions ==
    [install_name |-> None, launch_file |-> None, autorun |-> FALSE,
     dependencies |-> JList(<<>>), add_to_path |-> FALSE,
     downloadable |-> TRUE, official |-> TRUE, commands |-> JList(<<>>)]

\* an option file: present or not, and its raw lines
NoOptionFile == [has |-> FALSE, raw |-> <<>>]

OptionFile(raw) == [has |-> TRUE, raw |-> raw]

parse_options(opt) ==
    IF ~opt.has THEN DefaultOptions
    ELSE LET l == Lines(opt.raw)
             n == Len(l)
         IN [install_name |-> IF n > 0 /\ l[1].tag = "name" THEN Some(l[1].s) ELSE None,
             launch_file  |-> IF n > 1 /\ l[2].tag = "file" THEN Some(l[2].s) ELSE None,
             autorun      |-> IF n > 2 THEN HasTrue(l[3]) ELSE FALSE,
             dependencies |-> IF n > 3 /\ JsonOk(l[4]) THEN l[4].j ELSE JList(<<>>),
             add_to_path  |-> IF n > 4 THEN HasTrue(l[5]) ELSE FALSE,
             downloadable |-> IF n > 5 THEN HasTrue(l[6]) ELSE TRUE,
             official     |-> IF n > 6 THEN HasTrue(l[7]) ELSE TRUE,
             commands     |-> IF n > 7 /\ JsonOk(l[8]) THEN l[8].j ELSE JList(<<>>)]

(***************************************************************************)
(* The archives the endpoint can serve. An archive is its option.txt and   *)
(* whether the launch file it declares is in the tree.                     *)
(***************************************************************************)
Archive(opt, launch) == [opt |-> opt, launch |-> launch]

DepPip == JStr(<<"numpy">>)

DepPython == JStr(<<"Python">>)

DepOrgB == JStr(ALLOWED_ORG \o <<"/", "B">>)

CmdEcho == JStr(<<"echo">>)

CmdRm == JStr(<<"RM">>)

\* no option.txt at all
ArchPlain == Archive(NoOptionFile, FALSE)

\* Name:"X" File:"run" autorun, launch file present
ArchNamed ==
    Archive(OptionFile(<<NameLine(<<"X">>), BlankLine, FileLine(<<"run">>), BoolLine(TRUE)>>), TRUE)

\* all eight lines: dependencies (one of them another package) and commands
ArchDeps ==
    Archive(OptionFile(<<JunkLine, FileLine(<<"run">>), BoolLine(FALSE),
                         JsonLine(JList(<<DepPython, DepPip, DepOrgB>>)),
                         BoolLine(FALSE), BoolLine(TRUE), BoolLine(TRUE),
                         JsonLine(JList(<<CmdRm, CmdEcho>>))>>), FALSE)

\* a dependency list whose first entry is not a string
ArchBadDep ==
    Archive(OptionFile(<<NameLine(<<"X">>), JunkLine, BoolLine(FALSE),
                         JsonLine(JList(<<JNum, DepPip>>))>>), FALSE)

\* official = false
ArchUnofficial ==
    Archive(OptionFile(<<JunkLine, JunkLine, BoolLine(FALSE), JunkLine,
                         BoolLine(FALSE), BoolLine(TRUE), BoolLine(FALSE)>>), FALSE)

\* downloadable = false, official by default
ArchNoDownload ==
    Archive(OptionFile(<<NameLine(<<"X">>), JunkLine, BoolLine(FALSE), JunkLine,
                         BoolLine(FALSE), BoolLine(FALSE)>>), FALSE)

\* downloadable = false and official = false
ArchUnofficialNoDownload ==
    Archive(OptionFile(<<JunkLine, JunkLine, BoolLine(FALSE), JunkLine,
                         BoolLine(FALSE), BoolLine(FALSE), BoolLine(FALSE)>>), FALSE)

Archives ==
    {ArchPlain, ArchNamed, ArchDeps, ArchBadDep, ArchUnofficial, ArchNoDownload,
     ArchUnofficialNoDownload}

\* the repositories of the organization
Repos == {<<"A">>, <<"B">>}

\* what repository B serves
ArchivesB == {ArchPlain, ArchNamed}

Remotes == {r \in [Repos -> Archives] : r[<<"B">>] \in ArchivesB}

(***************************************************************************)
(* Command lines.                                                          *)
(***************************************************************************)
UrlA == BASE_GITHUB_URL \o <<"/">> \o ALLOWED_ORG \o <<"/", "A">>

UrlOtherOrg == BASE_GITHUB_URL \o <<"/", "SomeoneElse", "/", "A">>

UrlOtherOrgDeep == <<"http:", "/", "/", "github.com", "/", "SomeoneElse", "/">> \o ALLOWED_ORG

RepoInputs == {<<"A">>, <<"B">>, UrlA, UrlOtherOrg, UrlOtherOrgDeep}

ExplicitNames == {<<"Y">>, <<"temp_", "A">>}

PkgNames == {<<"A">>, <<"B">>, <<"X">>, <<"Y">>, <<"temp_", "A">>}

Argvs ==
    {<<<<"install">>, r>> : r \in RepoInputs}
        \cup {<<<<"install">>, r, <<"--name">>, n>> : r \in RepoInputs, n \in ExplicitNames}
        \cup {<<<<"uninstall">>, n>> : n \in PkgNames}

\* name = sys.argv[4] if len(sys.argv) > 4 and sys.argv[3] == "--name" else None
\* (argv[0] is the script: argv[k] of the code is a[k] here)
ArgName(a) == IF Len(a) > 3 /\ a[3] = <<"--name">> THEN Some(a[4]) ELSE None

(***************************************************************************)
(* The registry mapping and the directory tree are finite maps.            *)
(***************************************************************************)
EmptyMap == [x \in {} |-> 0]

Upsert(m, k, e) == [x \in DOMAIN m \cup {k} |-> IF x = k THEN e ELSE m[x]]

Remove(m, k) == [x \in DOMAIN m \ {k} |-> m[x]]

\* Path.exists() of PACKAGES_DIR / name; PACKAGES_DIR / "" is PACKAGES_DIR itself
Exists(tree, name) == name = <<>> \/ name \in DOMAIN tree

\* shutil.rmtree(path) of a directory that exists
RmTree(tree, name) == Remove(tree, name)

\* rename / shutil.move of directory a to the free name b
Rename(tree, a, b) == Upsert(Remove(tree, a), b, tree[a])

Content(repo_name, arch) == [repo |-> repo_name, arch |-> arch]

(***************************************************************************)
(* packages.json.                                                          *)
(***************************************************************************)
\* state: "valid" (a JSON object, map), "absent" (no file), "corrupt" (text
\* that is not JSON), "undecodable" (bytes that are not text in the encoding
\* open(PACKAGES_JSON, 'r') reads with)
RegAbsent == [state |-> "absent", map |-> EmptyMap]

RegValid(m) == [state |-> "valid", map |-> m]

RegCorrupt == [state |-> "corrupt", map |-> EmptyMap]

RegUndecodable == [state |-> "undecodable", map |-> EmptyMap]

\* json.load of the file, {} on FileNotFoundError or JSONDecodeError
get_installed_packages(rf) == IF rf.state = "valid" THEN rf.map ELSE EmptyMap

\* json.load raises UnicodeDecodeError, which is neither of the two exceptions
\* line 289 catches
LoadRaises(rf) == rf.state = "undecodable"

RegistryEntry(name, repo_url, now) ==
    [repo_url |-> repo_url, path |-> name, installed_at |-> now]

\* faulty variant: the entry is set in the mapping the file holds at the write
save_package_info_at_write(packages, name, repo_url, now) ==
    [state |-> "valid",
     map |-> Upsert(IF regfile.state = "valid" THEN regfile.map ELSE EmptyMap,
                    name, RegistryEntry(name, repo_url, now))]

\* faulty variant: the entry is written alone, the loaded entries are dropped
save_package_info_alone(packages, name, repo_url, now) ==
    [state |-> "valid", map |-> Upsert(EmptyMap, name, RegistryEntry(name, repo_url, now))]

\* save_package_info writes the mapping it loaded with packages[name] set
save_package_info(packages, name, repo_url, now) ==
    RegValid(Upsert(packages, name, RegistryEntry(name, repo_url, now)))

\* del packages[name]; json.dump(packages, f)
remove_package_info(packages, name) == RegValid(Remove(packages, name))

\* setup_environment: packages.json is created as {} when it does not exist
setup_environment(rf) == IF rf.state = "absent" THEN RegValid(EmptyMap) ELSE rf

(***************************************************************************)
(* Invocations, call stacks, and what an invocation reports.               *)
(***************************************************************************)
Procs == {1, 2}

\* force_remove's default for retries, line 248
Retries == 3

\* where a call of op starts
Entry(op) ==
    CASE op = "install" -> "validate"
      [] op = "uninstall" -> "u_load"
      [] op = "list" -> "l_load"

Frame(op, arg, name) ==
    [op |-> op, pc |-> Entry(op),
     arg |-> arg, name |-> name, repo_url |-> <<>>, repo_name |-> <<>>,
     options |-> DefaultOptions, pkg_name |-> <<>>, i |-> 1, packages |-> EmptyMap,
     retries |-> Retries, done |-> <<>>]

Depth(p) == Len(stack[p])

Top(p) == stack[p][Len(stack[p])]

At(p, op, pc) == stack[p] # <<>> /\ Top(p).op = op /\ Top(p).pc = pc

Event(ev, a, b, d) == [ev |-> ev, a |-> a, b |-> b, d |-> d]

\* the frame on top goes on as f
Goto(p, f) == stack' = [stack EXCEPT ![p] = [@ EXCEPT ![Len(@)] = f]]

\* the frame on top returns
Return(p) == stack' = [stack EXCEPT ![p] = SubSeq(@, 1, Len(@) - 1)]

\* the frame on top goes on as f and calls g
Call(p, f, g) == stack' = [stack EXCEPT ![p] = Append([@ EXCEPT ![Len(@)] = f], g)]

Emit(p, evs) == out' = [out EXCEPT ![p] = @ \o evs]

Snapshot == [fs |-> fs, zips |-> zips, regfile |-> regfile, autostart |-> autostart]

NoSnapshot == [fs |-> EmptyMap, zips |-> {}, regfile |-> RegAbsent, autostart |-> {}]

Init ==
    /\ fs = EmptyMap
    /\ zips = {}
    /\ regfile = RegAbsent
    /\ autostart = {}
    /\ remote \in Remotes
    /\ stack = [p \in Procs |-> <<>>]
    /\ call = [p \in Procs |-> <<>>]
    /\ out = [p \in Procs |-> <<>>]
    /\ pre = [p \in Procs |-> NoSnapshot]
    /\ nops = 0

(***************************************************************************)
(* __main__, lines 433-455: one invocation of the tool.                    *)
(***************************************************************************)
\* the call a command line leads to, lines 442-449
Command(a) ==
    CASE a[1] = <<"install">> -> Frame("install", a[2], ArgName(a))
      [] a[1] = <<"uninstall">> -> Frame("uninstall", a[2], None)
      [] a[1] = <<"list">> -> Frame("list", <<>>, None)

\* an invocation with one of the command lines argvs
Invoke(p, argvs) ==
    /\ stack[p] = <<>>
    /\ nops < MaxOps
    /\ \E a \in argvs :
        /\ call' = [call EXCEPT ![p] = a]
        /\ stack' = [stack EXCEPT ![p] = <<Command(a)>>]
    /\ regfile' = setup_environment(regfile)
    /\ pre' = [pre EXCEPT ![p] = [Snapshot EXCEPT !.regfile = setup_environment(regfile)]]
    /\ out' = [out EXCEPT ![p] = <<>>]
    /\ nops' = nops + 1
    /\ UNCHANGED <<fs, zips, autostart, remote>>

Main(p) == Invoke(p, Argvs)

(***************************************************************************)
(* install_package, lines 324-388.                                         *)
(***************************************************************************)
\* lines 326-332
InstallValidate(p) ==
    /\ At(p, "install", "validate")
    /\ LET f == Top(p)
           url == normalize_repo_url(f.arg)
       IN IF ~validate_repo_url(url)
          THEN /\ Emit(p, <<Event("rejected", url, <<>>, Depth(p))>>)
               /\ Return(p)
          ELSE /\ Goto(p, [f EXCEPT !.pc = "clean", !.repo_url = url,
                                    !.repo_name = RepoNameOf(url)])
               /\ UNCHANGED out
    /\ UNCHANGED <<fs, zips, regfile, autostart, remote, call, pre, nops>>

\* lines 334-335: a stale staging directory is removed
InstallClean(p) ==
    /\ At(p, "install", "clean")
    /\ LET f == Top(p)
           temp_dir == TempDir(f.repo_name)
       IN /\ IF temp_dir \in DOMAIN fs
             THEN /\ fs' = RmTree(fs, temp_dir)
                  /\ Emit(p, <<Event("rmtree", temp_dir, <<>>, Depth(p))>>)
             ELSE UNCHANGED <<fs, out>>
          /\ Goto(p, [f EXCEPT !.pc = "fetch"])
    /\ UNCHANGED <<zips, regfile, autostart, remote, call, pre, nops>>

\* download_repo, lines 223-230: the request and the archive file; a failure
\* is a network error or a non-2xx answer (always so for an unknown repository)
InstallFetch(p) ==
    /\ At(p, "install", "fetch")
    /\ LET f == Top(p)
           get == Event("get", DownloadUrl(f.repo_name), <<>>, Depth(p))
       IN \E ok \in {r \in BOOLEAN : r => f.repo_name \in DOMAIN remote} :
            IF ok
            THEN /\ zips' = zips \cup {TempDir(f.repo_name)}
                 /\ Emit(p, <<get>>)
                 /\ Goto(p, [f EXCEPT !.pc = "extract"])
            ELSE /\ Emit(p, <<get, Event("download_failed", f.repo_name, <<>>, Depth(p))>>)
                 /\ Return(p)
                 /\ UNCHANGED zips
    /\ UNCHANGED <<fs, regfile, autostart, remote, call, pre, nops>>

\* download_repo, lines 232-245: extractall, the rename of "<repo>-main" to the
\* staging directory when it exists, and the archive file's removal.
\*   "corrupt": ZipFile raises; "layout": the archive holds no "<repo>-main"
InstallExtract(p) ==
    /\ At(p, "install", "extract")
    /\ LET f == Top(p)
           temp_dir == TempDir(f.repo_name)
           extracted_dir == ExtractedDir(f.repo_name)
           failed == Event("download_failed", f.repo_name, <<>>, Depth(p))
       IN \E how \in {"ok", "corrupt", "layout"} :
            LET tree == IF how = "ok"
                        THEN Upsert(fs, extracted_dir, Content(f.repo_name, remote[f.repo_name]))
                        ELSE fs
            IN /\ zips' = zips \ {temp_dir}
               /\ IF how = "corrupt"
                  THEN /\ Emit(p, <<failed>>)
                       /\ Return(p)
                       /\ UNCHANGED fs
                  ELSE IF extracted_dir \notin DOMAIN tree
                  THEN /\ Goto(p, [f EXCEPT !.pc = "parse"])
                       /\ UNCHANGED <<fs, out>>
                  ELSE IF temp_dir \in DOMAIN tree
                  THEN \* Path.rename onto an existing directory raises on Windows
                       /\ fs' = tree
                       /\ Emit(p, <<failed>>)
                       /\ Return(p)
                  ELSE /\ fs' = Rename(tree, extracted_dir, temp_dir)
                       /\ Emit(p, <<Event("extracted", extracted_dir, temp_dir, Depth(p))>>)
                       /\ Goto(p, [f EXCEPT !.pc = "parse"])
    /\ UNCHANGED <<regfile, autostart, remote, call, pre, nops>>

\* line 341
InstallParse(p) ==
    /\ At(p, "install", "parse")
    /\ LET f == Top(p)
           temp_dir == TempDir(f.repo_name)
           opt == IF temp_dir \in DOMAIN fs THEN fs[temp_dir].arch.opt ELSE NoOptionFile
       IN Goto(p, [f EXCEPT !.pc = "official", !.options = parse_options(opt)])
    /\ UNCHANGED <<fs, zips, regfile, autostart, remote, call, out, pre, nops>>

\* shutil.rmtree(temp_dir) followed by return, lines 347-348, 352-353, 360-361:
\* when the staging directory is not there rmtree raises, and the handler of
\* lines 385-388 finds nothing to remove
AbortStaged(p, ev) ==
    LET temp_dir == TempDir(Top(p).repo_name)
    IN /\ IF temp_dir \in DOMAIN fs
          THEN /\ fs' = RmTree(fs, temp_dir)
               /\ Emit(p, <<ev, Event("rmtree", temp_dir, <<>>, Depth(p))>>)
          ELSE /\ UNCHANGED fs
               /\ Emit(p, <<ev, Event("critical", <<>>, <<>>, Depth(p))>>)
       /\ Return(p)

\* lines 343-348: an unofficial package asks for confirmation
InstallOfficial(p) ==
    /\ At(p, "install", "official")
    /\ LET f == Top(p)
       IN IF f.options.official
          THEN /\ Goto(p, [f EXCEPT !.pc = "downloadable"])
               /\ UNCHANGED <<fs, out>>
          ELSE \E confirm \in {<<"y">>, <<"n">>} :
                 IF Lower(confirm) # <<"y">>
                 THEN AbortStaged(p, Event("declined", f.repo_name, <<>>, Depth(p)))
                 ELSE /\ Goto(p, [f EXCEPT !.pc = "downloadable"])
                      /\ Emit(p, <<Event("confirmed", f.repo_name, <<>>, Depth(p))>>)
                      /\ UNCHANGED fs
    /\ UNCHANGED <<zips, regfile, autostart, remote, call, pre, nops>>

\* faulty variant: the downloadable flag is not looked at
InstallDownloadable_unchecked(p) ==
    /\ At(p, "install", "downloadable")
    /\ Goto(p, [Top(p) EXCEPT !.pc = "resolve"])
    /\ UNCHANGED <<fs, zips, regfile, autostart, remote, call, out, pre, nops>>

\* lines 350-353
InstallDownloadable(p) ==
    /\ At(p, "install", "downloadable")
    /\ LET f == Top(p)
       IN IF ~f.options.downloadable
          THEN AbortStaged(p, Event("forbidden", f.repo_name, <<>>, Depth(p)))
          ELSE /\ Goto(p, [f EXCEPT !.pc = "resolve"])
               /\ UNCHANGED <<fs, out>>
    /\ UNCHANGED <<zips, regfile, autostart, remote, call, pre, nops>>

\* faulty variant: the manifest's install name comes before the explicit name
ResolveName_manifest_first(name, install_name, repo_name) ==
    IF Truthy(install_name) THEN install_name.v
    ELSE IF Truthy(name) THEN name.v
    ELSE repo_name

\* pkg_name = name or options["install_name"] or repo_name, line 355
ResolveName(name, install_name, repo_name) ==
    IF Truthy(name) THEN name.v
    ELSE IF Truthy(install_name) THEN install_name.v
    ELSE repo_name

\* faulty variant: an existing target directory does not stop the install
InstallResolve_unchecked(p) ==
    /\ At(p, "install", "resolve")
    /\ LET f == Top(p)
       IN Goto(p, [f EXCEPT !.pc = "move",
                            !.pkg_name = ResolveName(f.name, f.options.install_name, f.repo_name)])
    /\ UNCHANGED <<fs, zips, regfile, autostart, remote, call, out, pre, nops>>

\* lines 355-361
InstallResolve(p) ==
    /\ At(p, "install", "resolve")
    /\ LET f == Top(p)
           pkg_name == ResolveName(f.name, f.options.install_name, f.repo_name)
       IN IF Exists(fs, pkg_name)
          THEN AbortStaged(p, Event("already_installed", pkg_name, <<>>, Depth(p)))
          ELSE /\ Goto(p, [f EXCEPT !.pc = "move", !.pkg_name = pkg_name])
               /\ UNCHANGED <<fs, out>>
    /\ UNCHANGED <<zips, regfile, autostart, remote, call, pre, nops>>

\* line 363: shutil.move raises when the staging directory is not there, and
\* moves it inside the target when the target has appeared meanwhile
InstallMove(p) ==
    /\ At(p, "install", "move")
    /\ LET f == Top(p)
           temp_dir == TempDir(f.repo_name)
       IN IF temp_dir \notin DOMAIN fs
          THEN /\ Emit(p, <<Event("critical", <<>>, <<>>, Depth(p))>>)
               /\ Return(p)
               /\ UNCHANGED fs
          ELSE /\ fs' = IF Exists(fs, f.pkg_name)
                        THEN RmTree(fs, temp_dir)
                        ELSE Rename(fs, temp_dir, f.pkg_name)
               /\ Emit(p, <<Event("moved", temp_dir, f.pkg_name, Depth(p))>>)
               /\ Goto(p, [f EXCEPT !.pc = "deps", !.i = 1, !.done = Append(@, "move")])
    /\ UNCHANGED <<zips, regfile, autostart, remote, call, pre, nops>>

(***************************************************************************)
(* install_dependencies, lines 146-219, one dependency per step.           *)
(***************************************************************************)
\* what becomes of one dependency
\*   "skip": python itself; "package": another package of the organization;
\*   "pip": the external installer; "raise": an entry that is not a string
\*   (dep.lower() raises AttributeError, which no handler of the loop catches)
DepKind(dep) ==
    IF dep.t # "str" THEN "raise"
    ELSE IF Lower(dep.v) = <<"python">> THEN "skip"
    ELSE IF Lower(dep.v) \in {<<"pyqt6">>, <<"pyqt6-tools">>} THEN "pip"
    ELSE IF StartsWith(dep.v, ALLOWED_ORG \o <<"/">>) THEN "package"
    ELSE "pip"

\* the outcomes of the external installer: at once, on the retry of lines
\* 201-210, or not at all (lines 211-219, logged)
PipOutcomes == {<<"ok">>, <<"retry_ok">>, <<"failed">>}

\* faulty variant: the registry is written right after the dependencies
AfterDeps_commit == "write"

\* where install_package continues after install_dependencies, line 366
AfterDeps == "autostart"

InstallDeps(p) ==
    /\ At(p, "install", "deps")
    /\ LET f == Top(p)
           deps == f.options.dependencies
       IN IF deps.t # "list"
          THEN \* iterating a value that is not a list raises TypeError
               /\ Emit(p, <<Event("critical", <<>>, <<>>, Depth(p))>>)
               /\ Return(p)
          ELSE IF f.i > Len(deps.items)
          THEN /\ Goto(p, [f EXCEPT !.pc = AfterDeps, !.i = 1, !.done = Append(@, "deps")])
               /\ UNCHANGED out
          ELSE LET dep == deps.items[f.i]
                   next == [f EXCEPT !.i = f.i + 1]
               IN CASE DepKind(dep) = "raise" ->
                        /\ Emit(p, <<Event("critical", <<>>, <<>>, Depth(p))>>)
                        /\ Return(p)
                    [] DepKind(dep) = "skip" ->
                        /\ Emit(p, <<Event("dep", dep.v, <<"skip">>, Depth(p))>>)
                        /\ Goto(p, next)
                    [] DepKind(dep) = "package" ->
                        /\ Depth(p) < MaxDepth
                        /\ Emit(p, <<Event("dep", dep.v, <<"package">>, Depth(p))>>)
                        /\ Call(p, next, Frame("install", SplitSlash(dep.v)[2], None))
                    [] DepKind(dep) = "pip" ->
                        \E how \in PipOutcomes :
                            /\ Emit(p, <<Event("dep", dep.v, how, Depth(p))>>)
                            /\ Goto(p, next)
    /\ UNCHANGED <<fs, zips, regfile, autostart, remote, call, pre, nops>>

(***************************************************************************)
(* install_package, lines 366-383.                                         *)
(***************************************************************************)
\* (target_dir / launch_file).exists()
LaunchFileExists(tree, f) ==
    /\ Truthy(f.options.launch_file)
    /\ f.pkg_name \in DOMAIN tree
    /\ tree[f.pkg_name].arch.launch

\* lines 366-369; add_to_autostart (lines 68-78) may fail
InstallAutostart(p) ==
    /\ At(p, "install", "autostart")
    /\ LET f == Top(p)
       IN /\ IF f.options.autorun /\ LaunchFileExists(fs, f)
             THEN \E ok \in BOOLEAN :
                    /\ autostart' = IF ok THEN autostart \cup {f.pkg_name} ELSE autostart
                    /\ Emit(p, <<Event("autostart_add", f.pkg_name,
                                       IF ok THEN <<"ok">> ELSE <<"failed">>, Depth(p))>>)
             ELSE UNCHANGED <<autostart, out>>
          /\ Goto(p, [f EXCEPT !.pc = "commands", !.i = 1, !.done = Append(@, "autostart")])
    /\ UNCHANGED <<fs, zips, regfile, remote, call, pre, nops>>

\* faulty variant: the keywords are looked for in cmd, not in cmd.lower()
Dangerous_as_written(cmd) ==
    \E i \in DOMAIN cmd : cmd[i] \in {"rm", "del", "format", "taskkill"}

\* any(danger in cmd.lower() for danger in ["rm", "del", "format", "taskkill"])
Dangerous(cmd) ==
    \E i \in DOMAIN cmd : LowerToken(cmd[i]) \in {"rm", "del", "format", "taskkill"}

\* execute_commands, lines 304-321, one command per step
InstallCommands(p) ==
    /\ At(p, "install", "commands")
    /\ LET f == Top(p)
           commands == f.options.commands
       IN IF commands.t # "list"
          THEN /\ Emit(p, <<Event("critical", <<>>, <<>>, Depth(p))>>)
               /\ Return(p)
          ELSE IF f.i > Len(commands.items)
          THEN /\ Goto(p, [f EXCEPT !.pc = "launch", !.i = 1, !.done = Append(@, "commands")])
               /\ UNCHANGED out
          ELSE LET cmd == commands.items[f.i]
               IN /\ Goto(p, [f EXCEPT !.i = f.i + 1])
                  /\ IF cmd.t # "str"
                     THEN Emit(p, <<Event("cmd", <<>>, <<"error">>, Depth(p))>>)
                     ELSE \E confirm \in {<<"y">>, <<"n">>}, how \in {<<"ok">>, <<"error">>} :
                            /\ Dangerous(cmd.v) \/ confirm = <<"y">>
                            /\ Emit(p, IF ~Dangerous(cmd.v)
                                       THEN <<Event("cmd", cmd.v, how, Depth(p))>>
                                       ELSE IF Lower(confirm) # <<"y">>
                                       THEN <<Event("confirm", cmd.v, confirm, Depth(p)),
                                              Event("cmd", cmd.v, <<"declined">>, Depth(p))>>
                                       ELSE <<Event("confirm", cmd.v, confirm, Depth(p)),
                                              Event("cmd", cmd.v, how, Depth(p))>>)
    /\ UNCHANGED <<fs, zips, regfile, autostart, remote, call, pre, nops>>

\* lines 373-380
InstallLaunch(p) ==
    /\ At(p, "install", "launch")
    /\ LET f == Top(p)
       IN /\ IF LaunchFileExists(fs, f)
             THEN Emit(p, <<Event("launch", f.pkg_name, f.options.launch_file.v, Depth(p))>>)
             ELSE UNCHANGED out
          /\ Goto(p, [f EXCEPT !.pc = "save", !.done = Append(@, "launch")])
    /\ UNCHANGED <<fs, zips, regfile, autostart, remote, call, pre, nops>>

\* save_package_info, line 294: the registry is read
\* (when the load raises, the handler of lines 385-388 ends the install)
InstallSave(p) ==
    /\ At(p, "install", "save")
    /\ IF LoadRaises(regfile)
       THEN /\ Emit(p, <<Event("critical", <<>>, <<>>, Depth(p))>>)
            /\ Return(p)
       ELSE /\ Goto(p, [Top(p) EXCEPT !.pc = "write",
                                      !.packages = get_installed_packages(regfile)])
            /\ UNCHANGED out
    /\ UNCHANGED <<fs, zips, regfile, autostart, remote, call, pre, nops>>

\* save_package_info, lines 295-301, and line 383
InstallWrite(p) ==
    /\ At(p, "install", "write")
    /\ LET f == Top(p)
       IN /\ regfile' = save_package_info(f.packages, f.pkg_name, f.repo_url, nops)
          /\ Emit(p, <<Event("installed", f.pkg_name, f.repo_url, Depth(p))>>)
          /\ Return(p)
    /\ UNCHANGED <<fs, zips, autostart, remote, call, pre, nops>>

(***************************************************************************)
(* uninstall_package, lines 391-418.                                       *)
(***************************************************************************)
\* faulty variant: a name the registry does not have is not turned away
UninstallLoad_unchecked(p) ==
    /\ At(p, "uninstall", "u_load")
    /\ Goto(p, [Top(p) EXCEPT !.pc = "u_autostart", !.packages = get_installed_packages(regfile)])
    /\ UNCHANGED <<fs, zips, regfile, autostart, remote, call, out, pre, nops>>

\* lines 393-396
UninstallLoad(p) ==
    /\ At(p, "uninstall", "u_load")
    /\ LET f == Top(p)
           packages == get_installed_packages(regfile)
       IN IF LoadRaises(regfile)
          THEN \* the handler of lines 417-418
               /\ Emit(p, <<Event("uninstall_error", f.arg, <<>>, Depth(p))>>)
               /\ Return(p)
          ELSE IF f.arg \notin DOMAIN packages
          THEN /\ Emit(p, <<Event("not_found", f.arg, <<>>, Depth(p))>>)
               /\ Return(p)
          ELSE /\ Goto(p, [f EXCEPT !.pc = "u_autostart", !.packages = packages])
               /\ UNCHANGED out
    /\ UNCHANGED <<fs, zips, regfile, autostart, remote, call, pre, nops>>

\* line 399, remove_from_autostart (lines 81-91): DeleteValue raises when the
\* value is not there, and opening the key may fail
UninstallAutostart(p) ==
    /\ At(p, "uninstall", "u_autostart")
    /\ LET f == Top(p)
       IN \E ok \in {r \in BOOLEAN : r => f.arg \in autostart} :
            /\ autostart' = IF ok THEN autostart \ {f.arg} ELSE autostart
            /\ Emit(p, <<Event("autostart_remove", f.arg,
                               IF ok THEN <<"ok">> ELSE <<"failed">>, Depth(p))>>)
            /\ Goto(p, [f EXCEPT !.pc = "u_check"])
    /\ UNCHANGED <<fs, zips, regfile, remote, call, pre, nops>>

\* faulty variant: the reaper is called whether or not the path exists
UninstallCheck_always_reaps(p) ==
    /\ At(p, "uninstall", "u_check")
    /\ Goto(p, [Top(p) EXCEPT !.pc = "u_reap", !.i = 0])
    /\ UNCHANGED <<fs, zips, regfile, autostart, remote, call, out, pre, nops>>

\* lines 398, 401-406
UninstallCheck(p) ==
    /\ At(p, "uninstall", "u_check")
    /\ LET f == Top(p)
           pkg_path == f.packages[f.arg].path
       IN IF ~Exists(fs, pkg_path)
          THEN /\ regfile' = remove_package_info(f.packages, f.arg)
               /\ Emit(p, <<Event("already_gone", f.arg, <<>>, Depth(p))>>)
               /\ Return(p)
          ELSE /\ Goto(p, [f EXCEPT !.pc = "u_reap", !.i = 0])
               /\ UNCHANGED <<regfile, out>>
    /\ UNCHANGED <<fs, zips, autostart, remote, call, pre, nops>>

\* faulty variant: the last resort reports success even when it raises
force_remove_always_true(p, how) ==
    LET f == Top(p)
        pkg_path == f.packages[f.arg].path
        gone == IF pkg_path \in DOMAIN fs THEN RmTree(fs, pkg_path) ELSE fs
    IN IF f.i < Retries
       THEN /\ how \in {"removed", "raised"}
            /\ fs' = IF how = "removed" THEN gone ELSE fs
            /\ Emit(p, <<Event("reap", pkg_path, <<how>>, Depth(p))>>)
            /\ Goto(p, IF how = "removed" THEN [f EXCEPT !.pc = "u_write"]
                                          ELSE [f EXCEPT !.i = f.i + 1])
       ELSE /\ fs' = IF how = "removed" THEN gone ELSE fs
            /\ Emit(p, <<Event("reap_last", pkg_path, <<how>>, Depth(p))>>)
            /\ Goto(p, [f EXCEPT !.pc = "u_write"])

\* faulty variant: range(retries + 1), one strict attempt too many
force_remove_one_more(p, how) ==
    LET f == Top(p)
        pkg_path == f.packages[f.arg].path
        gone == IF pkg_path \in DOMAIN fs THEN RmTree(fs, pkg_path) ELSE fs
    IN IF f.i <= f.retries
       THEN /\ how \in {"removed", "raised"}
            /\ fs' = IF how = "removed" THEN gone ELSE fs
            /\ Emit(p, IF how = "removed"
                       THEN <<Event("reap", pkg_path, <<how>>, Depth(p))>>
                       ELSE <<Event("reap", pkg_path, <<how>>, Depth(p)),
                              Event("sleep", pkg_path, <<>>, Depth(p))>>)
            /\ Goto(p, IF how = "removed" THEN [f EXCEPT !.pc = "u_write"]
                                          ELSE [f EXCEPT !.i = f.i + 1])
       ELSE /\ fs' = IF how = "removed" THEN gone ELSE fs
            /\ IF how = "raised"
               THEN /\ Emit(p, <<Event("reap_last", pkg_path, <<how>>, Depth(p)),
                                 Event("uninstall_failed", f.arg, pkg_path, Depth(p))>>)
                    /\ Return(p)
               ELSE /\ Emit(p, <<Event("reap_last", pkg_path, <<how>>, Depth(p))>>)
                    /\ Goto(p, [f EXCEPT !.pc = "u_write"])

\* force_remove, lines 248-267, one attempt per step: `retries` strict
\* attempts (chmod, rmtree), each failed one followed by time.sleep(delay),
\* then rmtree(ignore_errors=True), which returns True whether or not the
\* tree is gone, and False when it raises
\*   how: "removed", "remains", "raised"
force_remove(p, how) ==
    LET f == Top(p)
        pkg_path == f.packages[f.arg].path
        gone == IF pkg_path \in DOMAIN fs THEN RmTree(fs, pkg_path) ELSE fs
    IN IF f.i < f.retries
       THEN /\ how \in {"removed", "raised"}
            /\ fs' = IF how = "removed" THEN gone ELSE fs
            /\ Emit(p, IF how = "removed"
                       THEN <<Event("reap", pkg_path, <<how>>, Depth(p))>>
                       ELSE <<Event("reap", pkg_path, <<how>>, Depth(p)),
                              Event("sleep", pkg_path, <<>>, Depth(p))>>)
            /\ Goto(p, IF how = "removed" THEN [f EXCEPT !.pc = "u_write"]
                                          ELSE [f EXCEPT !.i = f.i + 1])
       ELSE /\ fs' = IF how = "removed" THEN gone ELSE fs
            /\ IF how = "raised"
               THEN /\ Emit(p, <<Event("reap_last", pkg_path, <<how>>, Depth(p)),
                                 Event("uninstall_failed", f.arg, pkg_path, Depth(p))>>)
                    /\ Return(p)
               ELSE /\ Emit(p, <<Event("reap_last", pkg_path, <<how>>, Depth(p))>>)
                    /\ Goto(p, [f EXCEPT !.pc = "u_write"])

\* lines 408-409, 414-415
UninstallReap(p) ==
    /\ At(p, "uninstall", "u_reap")
    /\ \E how \in {"removed", "remains", "raised"} : force_remove(p, how)
    /\ UNCHANGED <<zips, regfile, autostart, remote, call, pre, nops>>

\* lines 410-413
UninstallWrite(p) ==
    /\ At(p, "uninstall", "u_write")
    /\ LET f == Top(p)
       IN /\ regfile' = remove_package_info(f.packages, f.arg)
          /\ Emit(p, <<Event("uninstalled", f.arg, <<>>, Depth(p))>>)
          /\ Return(p)
    /\ UNCHANGED <<fs, zips, autostart, remote, call, pre, nops>>

(***************************************************************************)
(* The user deletes a package directory by hand (the case lines 401-406    *)
(* provide for), while no invocation is running. What the last invocation  *)
(* reported is no longer a description of the disk, and is dropped.        *)
(***************************************************************************)
Idle == \A p \in Procs : stack[p] = <<>>

ManualDelete ==
    /\ Idle
    /\ nops < MaxOps
    /\ \E n \in DOMAIN fs \cap DOMAIN get_installed_packages(regfile) : fs' = RmTree(fs, n)
    /\ call' = [p \in Procs |-> <<>>]
    /\ out' = [p \in Procs |-> <<>>]
    /\ pre' = [p \in Procs |-> NoSnapshot]
    /\ UNCHANGED <<zips, regfile, autostart, remote, stack, nops>>

(***************************************************************************)
(* Specifications. Spec: invocations of the tool one after the other.      *)
(***************************************************************************)
Step(p) ==
    \/ InstallValidate(p)
    \/ InstallClean(p)
    \/ InstallFetch(p)
    \/ InstallExtract(p)
    \/ InstallParse(p)
    \/ InstallOfficial(p)
    \/ InstallDownloadable(p)
    \/ InstallResolve(p)
    \/ InstallMove(p)
    \/ InstallDeps(p)
    \/ InstallAutostart(p)
    \/ InstallCommands(p)
    \/ InstallLaunch(p)
    \/ InstallSave(p)
    \/ InstallWrite(p)
    \/ UninstallLoad(p)
    \/ UninstallAutostart(p)
    \/ UninstallCheck(p)
    \/ UninstallReap(p)
    \/ UninstallWrite(p)

Next ==
    \/ Idle /\ Main(1)
    \/ Step(1)
    \/ ManualDelete

Spec == Init /\ [][Next]_vars

(***************************************************************************)
(* What the properties below read off an invocation.                       *)
(***************************************************************************)
\* the invocation p started has returned
Done(p) == stack[p] = <<>> /\ call[p] # <<>>

IsInstall(p) == call[p] # <<>> /\ call[p][1] = <<"install">>

IsUninstall(p) == call[p] # <<>> /\ call[p][1] = <<"uninstall">>

\* the events of the outermost call of p (not of its dependency installs)
Own(p) == {i \in DOMAIN out[p] : out[p][i].d = 1}

Has(p, ev) == \E i \in Own(p) : out[p][i].ev = ev

\* the outermost install of p resolved its package name to n
ResolvedTo(p, n) ==
    \E i \in Own(p) :
        \/ out[p][i].ev = "already_installed" /\ out[p][i].a = n
        \/ out[p][i].ev = "moved" /\ out[p][i].b = n

IsFullUrl(r) == StartsWith(r, <<"http:", "/", "/">>) \/ StartsWith(r, <<"https:", "/", "/">>)

\* scheme://host/<first path segment>/...
FirstPathSegment(r) == IF Len(SplitSlash(r)) >= 4 THEN SplitSlash(r)[4] ELSE <<>>

(***************************************************************************)
(* C1. A package name N that is installed (directory N exists and the      *)
(* registry has key N) when an install starts: if that install resolves    *)
(* its name to N, it reports "already installed", neither moves nor        *)
(* commits, and directory N and registry entry N are as they were.         *)
(* Refuted: N = temp_<repo> is the staging path of an install of <repo>,   *)
(* which removes it before it fetches (line 335) and again at the conflict *)
(* (line 360).                                                             *)
(***************************************************************************)
C1_SecondInstallLeavesFirstIntact ==
    \A p \in Procs : \A n \in DOMAIN pre[p].fs \cap DOMAIN pre[p].regfile.map :
        (Done(p) /\ IsInstall(p) /\ ResolvedTo(p, n)) =>
            /\ \E i \in Own(p) : out[p][i].ev = "already_installed" /\ out[p][i].a = n
            /\ ~Has(p, "moved") /\ ~Has(p, "installed")
            /\ n \in DOMAIN fs /\ fs[n] = pre[p].fs[n]
            /\ n \in DOMAIN regfile.map /\ regfile.map[n] = pre[p].regfile.map[n]

(***************************************************************************)
(* C2. An install whose reference is a full URL with a first path segment  *)
(* other than the allowed organization is rejected at validation: it       *)
(* reports the rejection and nothing else, makes no request, and leaves    *)
(* the directories, the archive files and the registry as they were.       *)
(***************************************************************************)
C2_OtherOrgRejected ==
    \A p \in Procs :
        (IsInstall(p) /\ IsFullUrl(call[p][2]) /\ FirstPathSegment(call[p][2]) # ALLOWED_ORG) =>
            /\ \A i \in DOMAIN out[p] : out[p][i].ev = "rejected"
            /\ Done(p) => Len(out[p]) = 1
            /\ Depth(p) <= 1
            /\ fs = pre[p].fs /\ zips = pre[p].zips /\ regfile = pre[p].regfile

\* such an install has returned, with packages installed before it
C2_Witness ==
    /\ Done(1) /\ call[1] = <<<<"install">>, UrlOtherOrg>>
    /\ Has(1, "rejected")
    /\ DOMAIN regfile.map # {} /\ DOMAIN fs # {}

(***************************************************************************)
(* C3. An install run writes the registry once, as its last step, when     *)
(* move, dependencies, autostart, commands and launch are done, and what   *)
(* it writes is the entry of its resolved name with the normalized URL and *)
(* the path of that name. A run that returns at validation, at a failed    *)
(* fetch, at a declined or forbidden package or at a name conflict leaves  *)
(* the registry file as it found it.                                       *)
(***************************************************************************)
StagesOfInstall == <<"move", "deps", "autostart", "commands", "launch">>

EarlyReturns == {"rejected", "download_failed", "declined", "forbidden", "already_installed"}

C3_WriteStep ==
    \A p \in Procs :
        (stack[p] # <<>> /\ stack'[p] # stack[p] /\ Top(p).op = "install" /\ regfile' # regfile) =>
            LET f == Top(p)
            IN /\ f.pc = "write"
               /\ f.done = StagesOfInstall
               /\ stack'[p] = SubSeq(stack[p], 1, Len(stack[p]) - 1)
               /\ f.pkg_name \in DOMAIN regfile'.map
               /\ regfile'.map[f.pkg_name] =
                    [repo_url |-> normalize_repo_url(f.arg), path |-> f.pkg_name,
                     installed_at |-> nops]
               /\ \E i \in DOMAIN out[p] :
                    out[p][i].ev = "moved" /\ out[p][i].b = f.pkg_name /\ out[p][i].d = Depth(p)

C3_EarlyReturnWritesNothing ==
    \A p \in Procs :
        /\ Cardinality({i \in Own(p) : out[p][i].ev = "installed"}) <= 1
        /\ (Done(p) /\ IsInstall(p) /\ \E ev \in EarlyReturns : Has(p, ev)) =>
                regfile = pre[p].regfile /\ ~Has(p, "installed")
        /\ (Done(p) /\ Has(p, "installed")) => out[p][Len(out[p])].ev = "installed"

C3_CommitIsLastStep == [][C3_WriteStep]_vars /\ []C3_EarlyReturnWritesNothing

\* an install with a dependency install inside it has committed, last
C3_Witness ==
    /\ Done(1) /\ IsInstall(1)
    /\ out[1][Len(out[1])].ev = "installed" /\ out[1][Len(out[1])].d = 1
    /\ \E i \in DOMAIN out[1] : out[1][i].ev = "installed" /\ out[1][i].d = 2
    /\ \E i \in Own(1) : out[1][i].ev = "cmd"

(***************************************************************************)
(* C4. uninstall(N) of a registered N whose recorded path exists: the      *)
(* reaper is invoked; when it reports success the registry is written      *)
(* without N, when it reports failure the registry file is not written and *)
(* the failure names the path. This holds whether or not the autostart     *)
(* value could be removed.                                                 *)
(***************************************************************************)
ReaperSucceeded(p) ==
    \E i \in Own(p) :
        \/ out[p][i].ev = "reap" /\ out[p][i].b = <<"removed">>
        \/ out[p][i].ev = "reap_last" /\ out[p][i].b \in {<<"removed">>, <<"remains">>}

ReaperFailed(p) ==
    \E i \in Own(p) : out[p][i].ev = "reap_last" /\ out[p][i].b = <<"raised">>

AutostartRemoval(p, how) ==
    \E i \in Own(p) : out[p][i].ev = "autostart_remove" /\ out[p][i].b = how

C4_UninstallFollowsReaper ==
    \A p \in Procs :
        (/\ Done(p) /\ IsUninstall(p)
         /\ call[p][2] \in DOMAIN pre[p].regfile.map
         /\ pre[p].regfile.map[call[p][2]].path \in DOMAIN pre[p].fs) =>
            LET n == call[p][2]
                path == pre[p].regfile.map[n].path
            IN /\ ReaperSucceeded(p) # ReaperFailed(p)
               /\ ReaperSucceeded(p) =>
                    /\ regfile = RegValid(Remove(pre[p].regfile.map, n))
                    /\ Has(p, "uninstalled")
               /\ ReaperFailed(p) =>
                    /\ regfile = pre[p].regfile
                    /\ \E i \in Own(p) : out[p][i].ev = "uninstall_failed" /\ out[p][i].b = path
               /\ AutostartRemoval(p, <<"ok">>) \/ AutostartRemoval(p, <<"failed">>)

\* the reaper failed after the autostart value was removed: the entry stays
C4_Witness ==
    /\ Done(1) /\ IsUninstall(1)
    /\ ReaperFailed(1) /\ AutostartRemoval(1, <<"ok">>)
    /\ call[1][2] \in DOMAIN regfile.map /\ call[1][2] \in DOMAIN fs

(***************************************************************************)
(* C5. uninstall(N) of a name that is not a key of the registry reports    *)
(* not-found and does nothing else: no registry write, no autostart        *)
(* removal, no reaper, no directory removed, directory N included.         *)
(***************************************************************************)
C5_UninstallUnregisteredIsNoOp ==
    \A p \in Procs :
        (IsUninstall(p) /\ call[p][2] \notin DOMAIN pre[p].regfile.map) =>
            /\ \A i \in DOMAIN out[p] : out[p][i].ev = "not_found" /\ out[p][i].a = call[p][2]
            /\ Done(p) => Len(out[p]) = 1
            /\ fs = pre[p].fs /\ regfile = pre[p].regfile /\ autostart = pre[p].autostart

\* not-found for a name whose directory is on disk
C5_Witness ==
    /\ Done(1) /\ IsUninstall(1) /\ Has(1, "not_found")
    /\ call[1][2] \in DOMAIN fs /\ call[1][2] \notin DOMAIN regfile.map

(***************************************************************************)
(* C6. uninstall(N) of a registered N whose recorded path is not on disk   *)
(* writes the registry without N, leaving the other entries, and returns;  *)
(* the reaper is not invoked and no directory changes.                     *)
(***************************************************************************)
C6_UninstallOfMissingDirectory ==
    \A p \in Procs :
        (/\ IsUninstall(p)
         /\ call[p][2] \in DOMAIN pre[p].regfile.map
         /\ pre[p].regfile.map[call[p][2]].path \notin DOMAIN pre[p].fs) =>
            /\ \A i \in DOMAIN out[p] : out[p][i].ev \notin {"reap", "reap_last"}
            /\ fs = pre[p].fs
            /\ Done(p) =>
                /\ regfile = RegValid(Remove(pre[p].regfile.map, call[p][2]))
                /\ Has(p, "already_gone")

\* it happened, and another package stayed registered
C6_Witness ==
    /\ Done(1) /\ IsUninstall(1) /\ Has(1, "already_gone")
    /\ call[1][2] \notin DOMAIN regfile.map
    /\ DOMAIN regfile.map # {}

(***************************************************************************)
(* C7. When install resolves its package name to N and the registry has an *)
(* entry N or a directory N exists, that step aborts the install: the      *)
(* staging directory is removed, the run returns without moving anything,  *)
(* and the registry is not written.                                        *)
(* Refuted: line 358 tests the directory only; with entry N in the         *)
(* registry and no directory N the install goes on and overwrites entry N. *)
(***************************************************************************)
C7_ResolveStep ==
    \A p \in Procs :
        (At(p, "install", "resolve") /\ stack'[p] # stack[p]) =>
            LET f == Top(p)
                n == ResolveName(f.name, f.options.install_name, f.repo_name)
            IN (n \in DOMAIN get_installed_packages(regfile) \/ Exists(fs, n)) =>
                    /\ stack'[p] = SubSeq(stack[p], 1, Len(stack[p]) - 1)
                    /\ TempDir(f.repo_name) \notin DOMAIN fs'
                    /\ regfile' = regfile

C7_ExistingNameAborts == [][C7_ResolveStep]_vars

(***************************************************************************)
(* C8. An install works on a fetched package past the manifest gates only  *)
(* if the manifest marks it downloadable, and, if the manifest marks it    *)
(* unofficial, only after the answer "y" to the confirmation. An install   *)
(* that ends at a decline or at a non-downloadable package leaves no       *)
(* staging directory, has run no dependency, autostart, command or launch  *)
(* step, has moved nothing and has not written the registry.               *)
(***************************************************************************)
PastGates == {"resolve", "move", "deps", "autostart", "commands", "launch", "save", "write"}

LaterSteps == {"moved", "dep", "autostart_add", "cmd", "launch", "installed"}

ExplicitNameOf(a) == IF Len(a) = 4 /\ a[3] = <<"--name">> THEN Some(a[4]) ELSE None

ExpectedName(a, rem) ==
    LET url == normalize_repo_url(a[2])
        repo == <<url[Len(url)]>>
        manifest == parse_options(rem[repo].opt)
    IN IF ExplicitNameOf(a).some THEN ExplicitNameOf(a).v
       ELSE IF manifest.install_name.some THEN manifest.install_name.v
       ELSE repo

C9_NamePrecedence ==
    \A p \in Procs : \A i \in Own(p) :
        /\ (out[p][i].ev = "moved") => out[p][i].b = ExpectedName(call[p], remote)
        /\ (Done(p) /\ out[p][i].ev = "installed") =>
            LET n == out[p][i].a
            IN /\ n = ExpectedName(call[p], remote)
               /\ \E j \in Own(p) : out[p][j].ev = "moved" /\ out[p][j].b = n
               /\ n \in DOMAIN fs
               /\ n \in DOMAIN regfile.map /\ regfile.map[n].path = n

\* --name Y on a package whose manifest declares X
C9_Witness ==
    /\ Done(1) /\ call[1] = <<<<"install">>, <<"A">>, <<"--name">>, <<"Y">>>>
    /\ remote[<<"A">>] = ArchNamed
    /\ \E i \in Own(1) : out[1][i].ev = "installed" /\ out[1][i].a = <<"Y">>
    /\ <<"Y">> \in DOMAIN regfile.map /\ <<"X">> \notin DOMAIN regfile.map

(***************************************************************************)
(* C10. Whatever the outcome of each dependency, an install that has moved *)
(* its package attempts every declared dependency, in the declared order,  *)
(* and goes on to its registry commit.                                     *)
(* Refuted: an entry that is not a string raises in dep.lower() (line      *)
(* 160); only CalledProcessError is caught (line 197), so the exception    *)
(* ends install_package in its handler (line 385), before the commit.      *)
(***************************************************************************)
DeclaredDependencies(p) ==
    LET url == normalize_repo_url(call[p][2])
    IN parse_options(remote[<<url[Len(url)]>>].opt).dependencies.items

\* the own "dep" events of p, in order
RECURSIVE OwnDeps(_)
OwnDeps(evs) ==
    IF evs = <<>> THEN <<>>
    ELSE IF Head(evs).ev = "dep" /\ Head(evs).d = 1
         THEN <<Head(evs).a>> \o OwnDeps(Tail(evs))
         ELSE OwnDeps(Tail(evs))

C10_DependencyFailureDoesNotAbort ==
    \A p \in Procs :
        (Done(p) /\ IsInstall(p) /\ Has(p, "moved")) =>
            /\ Len(OwnDeps(out[p])) = Len(DeclaredDependencies(p))
            /\ \A k \in DOMAIN OwnDeps(out[p]) : OwnDeps(out[p])[k] = DeclaredDependencies(p)[k].v
            /\ Has(p, "installed")

(***************************************************************************)
(* Full URLs on other hosts. A host is a sequence of tokens, so that        *)
(* "evilgithub.com" is "evil" followed by "github.com" and ends with the    *)
(* allowed host without being it.                                          *)
(***************************************************************************)
ALLOWED_HOST == <<"github.com">>

UrlEvilSuffix == <<"https:", "/", "/", "evil", "github.com", "/">> \o ALLOWED_ORG \o <<"/", "A">>

UrlOtherHost == <<"https:", "/", "/", "gitlab.com", "/">> \o ALLOWED_ORG \o <<"/", "A">>

UrlHostPrefix == <<"http:", "/", "/", "github.com", ".evil.org", "/">> \o ALLOWED_ORG \o <<"/", "A">>

HostInputs == {UrlA, UrlEvilSuffix, UrlOtherHost, UrlHostPrefix}

HostArgvs ==
    {<<<<"install">>, r>> : r \in HostInputs} \cup {<<<<"uninstall">>, n>> : n \in {<<"A">>, <<"X">>}}

MainHosts(p) == Invoke(p, HostArgvs)

NextHosts ==
    \/ Idle /\ MainHosts(1)
    \/ Step(1)

\* invocations one after the other, with references on several hosts
SpecHosts == Init /\ [][NextHosts]_vars

\* scheme://<host>/...
HostOf(r) == IF Len(SplitSlash(r)) >= 3 THEN SplitSlash(r)[3] ELSE <<>>

(***************************************************************************)
(* C11. An install whose reference is a full URL with a host other than    *)
(* github.com is rejected at validation, whatever its path: it reports the *)
(* rejection and nothing else, makes no request, stages nothing and leaves *)
(* the registry as it was.                                                 *)
(* Refuted: line 273 tests netloc.endswith("github.com"), so the host      *)
(* evilgithub.com with the allowed organization as first path segment      *)
(* passes, and the install goes on to fetch, move and commit.              *)
(***************************************************************************)
C11_OtherHostRejected ==
    \A p \in Procs :
        (IsInstall(p) /\ IsFullUrl(call[p][2]) /\ HostOf(call[p][2]) # ALLOWED_HOST) =>
            /\ \A i \in DOMAIN out[p] : out[p][i].ev = "rejected"
            /\ Done(p) => Len(out[p]) = 1
            /\ Depth(p) <= 1
            /\ fs = pre[p].fs /\ zips = pre[p].zips /\ regfile = pre[p].regfile

\* the part of C11 that holds: a host that does not end with github.com
C11_OtherSuffixRejected ==
    \A p \in Procs :
        (IsInstall(p) /\ IsFullUrl(call[p][2])
            /\ ~EndsWith(HostOf(call[p][2]), ALLOWED_HOST)) =>
            /\ \A i \in DOMAIN out[p] : out[p][i].ev = "rejected"
            /\ fs = pre[p].fs /\ zips = pre[p].zips /\ regfile = pre[p].regfile

(***************************************************************************)
(* Two invocations of the tool at the same time, against one packages      *)
(* directory and one registry file, starting with package A installed.     *)
(* Each step of an invocation is one action, so the load and the write of  *)
(* save_package_info, and of uninstall_package, can be apart.              *)
(***************************************************************************)
RemotePlain == [r \in Repos |-> ArchPlain]

InitRace ==
    /\ fs = Upsert(EmptyMap, <<"A">>, Content(<<"A">>, ArchPlain))
    /\ zips = {}
    /\ regfile = RegValid(Upsert(EmptyMap, <<"A">>, RegistryEntry(<<"A">>, UrlA, 0)))
    /\ autostart = {}
    /\ remote = RemotePlain
    /\ stack = [p \in Procs |-> <<>>]
    /\ call = [p \in Procs |-> <<>>]
    /\ out = [p \in Procs |-> <<>>]
    /\ pre = [p \in Procs |-> NoSnapshot]
    /\ nops = 0

RaceArgvs ==
    {<<<<"install">>, <<"B">>>>, <<<<"install">>, <<"A">>, <<"--name">>, <<"Y">>>>,
     <<<<"uninstall">>, <<"A">>>>}

MainRace(p) == Invoke(p, RaceArgvs)

NextRace ==
    \/ MainRace(1)
    \/ MainRace(2)
    \/ Step(1)
    \/ Step(2)

SpecRace == InitRace /\ [][NextRace]_vars

\* the name the outermost install of p committed
Committed(p, n) == \E i \in Own(p) : out[p][i].ev = "installed" /\ out[p][i].a = n

(***************************************************************************)
(* C12. Nothing guards the registry file between an invocation's load and  *)
(* its write: every write puts in the file the mapping the writer loaded,  *)
(* with its own key set or removed, whatever the file holds by then. So an *)
(* entry another invocation committed in between is lost: two installs of  *)
(* different names both commit and the registry ends with one of the two   *)
(* entries (C12_Witness), and an uninstall that loaded before an install's *)
(* commit erases that entry (C12_WitnessUninstall).                        *)
(***************************************************************************)
C12_WriteStep ==
    \A p \in Procs :
        (stack[p] # <<>> /\ stack'[p] # stack[p] /\ regfile' # regfile) =>
            LET f == Top(p)
            IN /\ regfile'.state = "valid"
               /\ f.op = "install" =>
                    /\ f.pkg_name \in DOMAIN regfile'.map
                    /\ regfile'.map = Upsert(f.packages, f.pkg_name, regfile'.map[f.pkg_name])
               /\ f.op = "uninstall" => regfile'.map = Remove(f.packages, f.arg)
               /\ \A k \in DOMAIN regfile.map \ DOMAIN f.packages :
                    k \in DOMAIN regfile'.map => (f.op = "install" /\ k = f.pkg_name)

C12_LostUpdate == [][C12_WriteStep]_vars

\* both installs have committed, B and Y, and the registry has Y without B
C12_Witness ==
    /\ Done(1) /\ Done(2)
    /\ Committed(1, <<"B">>) /\ Committed(2, <<"Y">>)
    /\ <<"B">> \in DOMAIN fs /\ <<"Y">> \in DOMAIN fs
    /\ <<"Y">> \in DOMAIN regfile.map /\ <<"B">> \notin DOMAIN regfile.map

\* the uninstall of A and the install of B have both completed, and the
\* registry has neither A nor B
C12_WitnessUninstall ==
    /\ Done(1) /\ Done(2)
    /\ IsUninstall(1) /\ Has(1, "uninstalled")
    /\ Committed(2, <<"B">>) /\ <<"B">> \in DOMAIN fs
    /\ DOMAIN regfile.map = {}

(***************************************************************************)
(* C13. Invocations one after the other, the registry file holding a valid *)
(* mapping: an install or uninstall of name N changes key N only. Every    *)
(* other key the registry had when the invocation started, except the keys *)
(* its own dependency installs committed, is there with the same entry,    *)
(* and no key appears besides N and those. Writing back the mapping loaded *)
(* from such a file gives the same file.                                   *)
(***************************************************************************)
\* the key the outermost call of p is about
OwnKeys(p) ==
    IF IsUninstall(p) THEN {call[p][2]}
    ELSE {out[p][i].b : i \in {j \in Own(p) : out[p][j].ev = "moved"}}

\* the keys the dependency installs of p committed
DepKeys(p) ==
    {out[p][i].a : i \in {j \in DOMAIN out[p] : out[p][j].ev = "installed" /\ out[p][j].d > 1}}

C13_WitnessUninstall ==
    /\ Done(1) /\ IsUninstall(1) /\ Has(1, "uninstalled")
    /\ DOMAIN pre[1].regfile.map = {<<"A">>, <<"B">>}
    /\ DOMAIN regfile.map = {<<"B">>}

(***************************************************************************)
(* parse_options on its own: the archive of A holds one of a family of     *)
(* option files, and an install of A runs up to line 341. The family is a  *)
(* file of eight well-formed lines, none of them at its default, cut after *)
(* its first k lines and with one line replaced by a line of LineKinds.    *)
(***************************************************************************)
MaxLines == 8

FullFile ==
    <<NameLine(<<"X">>), FileLine(<<"run">>), BoolLine(TRUE), JsonLine(JList(<<DepPip>>)),
      BoolLine(TRUE), BoolLine(FALSE), BoolLine(FALSE), JsonLine(JList(<<CmdEcho>>))>>

LineKinds ==
    {NameLine(<<"Y">>), FileLine(<<"go">>), BoolLine(TRUE), BoolLine(FALSE),
     JsonLine(JList(<<DepPython>>)), JsonLine(JList(<<JNum, DepPip>>)), JsonLine(JNotList),
     JunkLine, CommentLine, BlankLine}

ReplaceLine(raw, i, l) == [j \in DOMAIN raw |-> IF j = i THEN l ELSE raw[j]]

OptionFiles ==
    {NoOptionFile, OptionFile(<<>>)}
        \cup {OptionFile(ReplaceLine(SubSeq(FullFile, 1, k), i, l)) :
                k \in 1..MaxLines, i \in 1..MaxLines, l \in LineKinds}

InitParse ==
    /\ fs = EmptyMap
    /\ zips = {}
    /\ regfile = RegAbsent
    /\ autostart = {}
    /\ remote \in {[r \in Repos |-> IF r = <<"A">> THEN Archive(opt, FALSE) ELSE ArchPlain] :
                        opt \in OptionFiles}
    /\ stack = [p \in Procs |-> <<>>]
    /\ call = [p \in Procs |-> <<>>]
    /\ out = [p \in Procs |-> <<>>]
    /\ pre = [p \in Procs |-> NoSnapshot]
    /\ nops = 0

MainParse(p) == Invoke(p, {<<<<"install">>, <<"A">>>>})

NextParse ==
    \/ Idle /\ MainParse(1)
    \/ InstallValidate(1)
    \/ InstallClean(1)
    \/ InstallFetch(1)
    \/ InstallExtract(1)
    \/ InstallParse(1)

SpecParse == InitParse /\ [][NextParse]_vars

\* the option file the frame on top of p has just parsed
Parsed(p) == At(p, "install", "official")

OptionFileOf(p) ==
    IF TempDir(Top(p).repo_name) \in DOMAIN fs
    THEN fs[TempDir(Top(p).repo_name)].arch.opt
    ELSE NoOptionFile

\* the lines of the file that are not blank, as the file has them
NonBlankLines(opt) == SelectSeq(opt.raw, LAMBDA l : l.tag # "blank")

\* positional line idx is not there
AbsentLine(opt, idx) == ~opt.has \/ idx > Len(NonBlankLines(opt))

IsStringArray(l) ==
    l.tag = "json" /\ l.j.t = "list" /\ \A n \in DOMAIN l.j.items : l.j.items[n].t = "str"

\* positional line idx is there and is malformed for its field
MalformedLine(opt, idx) ==
    /\ ~AbsentLine(opt, idx)
    /\ LET l == NonBlankLines(opt)[idx]
       IN CASE idx = 1 -> l.tag # "name"
            [] idx = 2 -> l.tag # "file"
            [] idx \in {4, 8} -> ~IsStringArray(l)
            [] OTHER -> FALSE

Defaulted(opt, idx) == AbsentLine(opt, idx) \/ MalformedLine(opt, idx)

EmptySequence == JList(<<>>)

\* the fields of absent or malformed lines are at their defaults
FallsBack(opt, o) ==
    /\ Defaulted(opt, 1) => o.install_name = None
    /\ Defaulted(opt, 2) => o.launch_file = None
    /\ Defaulted(opt, 3) => o.autorun = FALSE
    /\ Defaulted(opt, 4) => o.dependencies = EmptySequence
    /\ Defaulted(opt, 5) => o.add_to_path = FALSE
    /\ Defaulted(opt, 6) => o.downloadable = TRUE
    /\ Defaulted(opt, 7) => o.official = TRUE
    /\ Defaulted(opt, 8) => o.commands = EmptySequence

\* the fields of well-formed lines are what the lines say
Positional(opt, o) ==
    LET l == NonBlankLines(opt)
        wf(idx) == ~Defaulted(opt, idx)
    IN /\ wf(1) => o.install_name = Some(l[1].s)
       /\ wf(2) => o.launch_file = Some(l[2].s)
       /\ (wf(3) /\ l[3].tag = "bool") => o.autorun = l[3].b
       /\ wf(4) => o.dependencies = l[4].j
       /\ (wf(5) /\ l[5].tag = "bool") => o.add_to_path = l[5].b
       /\ (wf(6) /\ l[6].tag = "bool") => o.downloadable = l[6].b
       /\ (wf(7) /\ l[7].tag = "bool") => o.official = l[7].b
       /\ wf(8) => o.commands = l[8].j

\* options a and b agree on every field but that of line idx
AgreeBut(a, b, idx) ==
    /\ idx # 1 => a.install_name = b.install_name
    /\ idx # 2 => a.launch_file = b.launch_file
    /\ idx # 3 => a.autorun = b.autorun
    /\ idx # 4 => a.dependencies = b.dependencies
    /\ idx # 5 => a.add_to_path = b.add_to_path
    /\ idx # 6 => a.downloadable = b.downloadable
    /\ idx # 7 => a.official = b.official
    /\ idx # 8 => a.commands = b.commands

\* a malformed line could be any other line: the other fields stay
Isolated(opt, o) ==
    \A idx \in 1..MaxLines : MalformedLine(opt, idx) =>
        \A l \in LineKinds \ {BlankLine} :
            AgreeBut(o, parse_options(OptionFile(ReplaceLine(NonBlankLines(opt), idx, l))), idx)

(***************************************************************************)
(* C14. parse_options returns, for every option file and for none, the     *)
(* options in which each field whose positional line (among the non-blank  *)
(* lines) is absent or malformed is at its default, each field of a        *)
(* well-formed line is what the line says, and a malformed line leaves the *)
(* other fields as they would be with any other line in its place.         *)
(* Refuted: a dependency or command line that is valid JSON but not an     *)
(* array of strings (a number, an array holding a number) is kept as the   *)
(* field's value (lines 124, 139); only text json.loads rejects falls back *)
(* to the empty sequence.                                                  *)
(***************************************************************************)
C14_ParseFallsBack ==
    \A p \in Procs : Parsed(p) =>
        /\ FallsBack(OptionFileOf(p), Top(p).options)
        /\ Positional(OptionFileOf(p), Top(p).options)
        /\ Isolated(OptionFileOf(p), Top(p).options)

\* the part of C14 that holds: absent lines, lines without their prefix, and
\* dependency or command lines that are not JSON at all
C14_ParseFallsBackOnText ==
    \A p \in Procs : Parsed(p) =>
        LET opt == OptionFileOf(p)
            o == Top(p).options
            notJson(idx) == AbsentLine(opt, idx) \/ NonBlankLines(opt)[idx].tag # "json"
        IN /\ Defaulted(opt, 1) => o.install_name = None
           /\ Defaulted(opt, 2) => o.launch_file = None
           /\ AbsentLine(opt, 3) => o.autorun = FALSE
           /\ notJson(4) => o.dependencies = EmptySequence
           /\ AbsentLine(opt, 5) => o.add_to_path = FALSE
           /\ AbsentLine(opt, 6) => o.downloadable = TRUE
           /\ AbsentLine(opt, 7) => o.official = TRUE
           /\ notJson(8) => o.commands = EmptySequence
           /\ Positional(opt, o)
           /\ Isolated(opt, o)

(***************************************************************************)
(* Packages that depend on each other: A on B and B on A, A on itself, and *)
(* the same with install names in the manifests.                           *)
(***************************************************************************)
DepOrgA == JStr(ALLOWED_ORG \o <<"/", "A">>)

DependsOn(dep) ==
    Archive(OptionFile(<<JunkLine, JunkLine, BoolLine(FALSE), JsonLine(JList(<<dep>>))>>), FALSE)

NamedDependsOn(n, dep) ==
    Archive(OptionFile(<<NameLine(n), JunkLine, BoolLine(FALSE), JsonLine(JList(<<dep>>))>>), FALSE)

RemoteMutual == [r \in Repos |-> IF r = <<"A">> THEN DependsOn(DepOrgB) ELSE DependsOn(DepOrgA)]

RemoteSelf == [r \in Repos |-> IF r = <<"A">> THEN DependsOn(DepOrgA) ELSE ArchPlain]

RemoteMutualNamed ==
    [r \in Repos |-> IF r = <<"A">> THEN NamedDependsOn(<<"X">>, DepOrgB) ELSE DependsOn(DepOrgA)]

CycleRemotes == {RemoteMutual, RemoteSelf, RemoteMutualNamed}

InitCycle ==
    /\ fs = EmptyMap
    /\ zips = {}
    /\ regfile = RegAbsent
    /\ autostart = {}
    /\ remote \in CycleRemotes
    /\ stack = [p \in Procs |-> <<>>]
    /\ call = [p \in Procs |-> <<>>]
    /\ out = [p \in Procs |-> <<>>]
    /\ pre = [p \in Procs |-> NoSnapshot]
    /\ nops = 0

CycleArgvs ==
    {<<<<"install">>, <<"A">>>>, <<<<"install">>, <<"B">>>>,
     <<<<"install">>, <<"A">>, <<"--name">>, <<"Y">>>>,
     <<<<"uninstall">>, <<"A">>>>, <<<<"uninstall">>, <<"B">>>>}

MainCycle(p) == Invoke(p, CycleArgvs)

NextCycle ==
    \/ Idle /\ MainCycle(1)
    \/ Step(1)

\* an invocation that has started goes on: the interpreter runs its next step
SpecCycle == InitCycle /\ [][NextCycle]_vars /\ WF_vars(Step(1))

\* the outermost install of p has started on a dependency that is a package
Recursed(p) ==
    \E i \in Own(p) : out[p][i].ev = "dep" /\ out[p][i].b = <<"package">>

\* the deepest call stack a cyclic dependency leads to: the install under an
\* explicit name, one install per repository under its own name, and the
\* call that is turned away (--name Y, then B, then A, then B again)
DeepestCycle == Cardinality(Repos) + 2

C15_DepthBounded == \A p \in Procs : Depth(p) <= DeepestCycle /\ Depth(p) < MaxDepth

C15_WitnessDeepest == Depth(1) = DeepestCycle

(***************************************************************************)
(* An invocation that is cut short, and the invocation after it. The first *)
(* invocation may be ended at any step from outside (the process is        *)
(* killed, or Ctrl-C raises KeyboardInterrupt, which `except Exception` of *)
(* line 385 does not catch); the second starts when the first is over.     *)
(***************************************************************************)
Interrupt(p) ==
    /\ stack[p] # <<>>
    /\ stack' = [stack EXCEPT ![p] = <<>>]
    /\ Emit(p, <<Event("interrupted", <<>>, <<>>, Depth(p))>>)
    /\ UNCHANGED <<fs, zips, regfile, autostart, remote, call, pre, nops>>

InitCrash ==
    /\ Init
    /\ remote[<<"A">>] \in {ArchBadDep, ArchDeps}

CrashArgvs ==
    {<<<<"install">>, <<"A">>>>, <<<<"install">>, <<"B">>, <<"--name">>, <<"temp_", "A">>>>,
     <<<<"uninstall">>, <<"X">>>>, <<<<"uninstall">>, <<"temp_", "A">>>>}

MainCrash(p) == Invoke(p, CrashArgvs)

NextCrash ==
    \/ Idle /\ nops = 0 /\ MainCrash(1)
    \/ Idle /\ nops = 1 /\ MainCrash(2)
    \/ Step(1)
    \/ Step(2)
    \/ Interrupt(1)

SpecCrash == InitCrash /\ [][NextCrash]_vars

\* the names the first invocation moved a package to without committing it,
\* once it is over
Orphans ==
    IF Done(1) /\ IsInstall(1) /\ ~Has(1, "installed")
    THEN {out[1][i].b : i \in {j \in Own(1) : out[1][j].ev = "moved"}}
    ELSE {}

\* what the claim says of an orphan n and the invocation that follows
OrphanStays(n) ==
    /\ n \in DOMAIN fs
    /\ n \notin DOMAIN get_installed_packages(regfile)
    /\ (IsInstall(2) /\ Done(2) /\ ResolvedTo(2, n)) =>
            /\ \E i \in Own(2) : out[2][i].ev = "already_installed" /\ out[2][i].a = n
            /\ ~Has(2, "moved") /\ ~Has(2, "installed")
    /\ (IsUninstall(2) /\ call[2][2] = n) =>
            \A i \in DOMAIN out[2] : out[2][i].ev = "not_found"

(***************************************************************************)
(* C16. An install that ends after its move and before its commit leaves   *)
(* directory N without registry entry N, and nothing is rolled back. After *)
(* that, an install that resolves to N is turned away as already           *)
(* installed, uninstall(N) reports not-found, and directory N stays on     *)
(* disk and N stays unregistered whatever the tool is asked to do.         *)
(* Refuted: for N = temp_<repo>, the next install of <repo> removes        *)
(* directory N as its stale staging directory (line 335).                  *)
(***************************************************************************)
C16_OrphanIsPermanent == \A n \in Orphans : OrphanStays(n)

\* the part of C16 that holds: names that are not a staging path
C16_OrphanIsPermanentUnlessStaging ==
    \A n \in Orphans \ {TempDir(r) : r \in Repos} : OrphanStays(n)

\* ... and it is not vacuous: X orphaned by a raise, then asked for again
C16_WitnessOrphan ==
    /\ <<"X">> \in Orphans /\ Has(1, "critical")
    /\ Done(2) /\ IsInstall(2) /\ ResolvedTo(2, <<"X">>)

(***************************************************************************)
(* download_repo as a call: it is entered at "fetch", it returns False     *)
(* when the install returns from "fetch" or "extract", and True when the   *)
(* install goes on to "parse".                                             *)
(***************************************************************************)
InFetch(p) == stack[p] # <<>> /\ Top(p).op = "install" /\ Top(p).pc \in {"fetch", "extract"}

FetchFailed(p) == InFetch(p) /\ stack'[p] = SubSeq(stack[p], 1, Len(stack[p]) - 1)

FetchSucceeded(p) ==
    /\ InFetch(p) /\ Len(stack'[p]) = Len(stack[p])
    /\ stack'[p][Len(stack'[p])].pc = "parse"

(***************************************************************************)
(* C17. When download_repo returns, with success or with failure, the      *)
(* archive file beside the staging directory is not there; and when it     *)
(* returns success the staging directory exists, so that an archive        *)
(* without "<repo>-main" at its top is a failure like a network error, a   *)
(* non-2xx answer and a corrupt archive are.                               *)
(* Refuted: when "<repo>-main" is missing after the extraction, line 236   *)
(* skips the rename and line 240 returns True with no staging directory.   *)
(***************************************************************************)
C17_FetchStep ==
    \A p \in Procs :
        LET temp_dir == TempDir(Top(p).repo_name)
        IN /\ (FetchFailed(p) \/ FetchSucceeded(p)) => temp_dir \notin zips'
           /\ FetchSucceeded(p) => temp_dir \in DOMAIN fs'

C17_FetchContract == [][C17_FetchStep]_vars

\* the part of C17 that holds: the archive file is gone at every return, and
\* a refused request or a corrupt archive is reported as a failure
C17_ArchiveRemovedStep ==
    \A p \in Procs :
        /\ (FetchFailed(p) \/ FetchSucceeded(p)) => TempDir(Top(p).repo_name) \notin zips'
        /\ FetchFailed(p) => out'[p][Len(out'[p])].ev = "download_failed"
        /\ (FetchSucceeded(p) /\ Top(p).pc = "extract") =>
                Top(p).repo_name \in DOMAIN remote /\ TempDir(Top(p).repo_name) \in zips

C17_ArchiveRemoved == [][C17_ArchiveRemovedStep]_vars

(***************************************************************************)
(* force_remove for every number of retries: an uninstall of the installed *)
(* package A whose call of force_remove passes retries from 0 to           *)
(* MaxRetries.                                                             *)
(***************************************************************************)
MaxRetries == 4

InitReap ==
    /\ fs = Upsert(EmptyMap, <<"A">>, Content(<<"A">>, ArchPlain))
    /\ zips = {}
    /\ regfile = RegValid(Upsert(EmptyMap, <<"A">>, RegistryEntry(<<"A">>, UrlA, 0)))
    /\ autostart = {<<"A">>}
    /\ remote = RemotePlain
    /\ \E r \in 0..MaxRetries :
        stack = [p \in Procs |->
                    IF p = 1 THEN <<[Frame("uninstall", <<"A">>, None) EXCEPT !.retries = r]>>
                    ELSE <<>>]
    /\ call = [p \in Procs |-> IF p = 1 THEN <<<<"uninstall">>, <<"A">>>> ELSE <<>>]
    /\ out = [p \in Procs |-> <<>>]
    /\ pre = [p \in Procs |-> NoSnapshot]
    /\ nops = 1

NextReap ==
    \/ UninstallLoad(1)
    \/ UninstallAutostart(1)
    \/ UninstallCheck(1)
    \/ UninstallReap(1)
    \/ UninstallWrite(1)

\* the uninstall goes on until it returns
SpecReap == InitReap /\ [][NextReap]_vars /\ WF_vars(NextReap)

\* the positions of the events ev in what p reported
EventsOf(p, ev) == {i \in DOMAIN out[p] : out[p][i].ev = ev}

\* what a step of p added to its report
Added(p) == SubSeq(out'[p], Len(out[p]) + 1, Len(out'[p]))

(***************************************************************************)
(* C18. force_remove(path, retries, delay) ends, for every retries >= 0.   *)
(* It makes strict attempts one after the other, at most retries of them;  *)
(* a strict attempt that succeeds is the last thing it does and its result *)
(* is success; a strict attempt that fails is followed by the sleep; when  *)
(* retries strict attempts have failed it makes one best-effort removal    *)
(* and its result is success unless that call raised.                      *)
(***************************************************************************)
C18_ReapStep ==
    \A p \in Procs :
        (At(p, "uninstall", "u_reap") /\ stack'[p] # stack[p]) =>
            LET f == Top(p)
                new == Added(p)
                success == stack'[p] = <<[f EXCEPT !.pc = "u_write"]>>
                failure == stack'[p] = <<>>
                again == stack'[p] = <<[f EXCEPT !.i = f.i + 1]>>
            IN /\ Cardinality(EventsOf(p, "reap")) = f.i
               /\ f.i <= f.retries
               /\ f.i < f.retries =>
                    /\ new[1].ev = "reap"
                    /\ new[1].b = <<"removed">> => (Len(new) = 1 /\ success)
                    /\ new[1].b # <<"removed">> =>
                            (Len(new) = 2 /\ new[2].ev = "sleep" /\ again)
               /\ f.i = f.retries =>
                    /\ new[1].ev = "reap_last"
                    /\ new[1].b = <<"raised">> => failure
                    /\ new[1].b # <<"raised">> => (Len(new) = 1 /\ success)

C18_Attempts ==
    \A p \in Procs :
        /\ Cardinality(EventsOf(p, "reap_last")) <= 1
        /\ Cardinality(EventsOf(p, "sleep")) =
                Cardinality({i \in EventsOf(p, "reap") : out[p][i].b = <<"raised">>})
        /\ \A i \in EventsOf(p, "reap") :
                out[p][i].b = <<"removed">> =>
                    /\ EventsOf(p, "reap_last") = {}
                    /\ \A j \in EventsOf(p, "reap") : j <= i
        /\ stack[p] # <<>> =>
                /\ Cardinality(EventsOf(p, "reap")) <= Top(p).retries
                /\ EventsOf(p, "reap_last") # {} =>
                        Cardinality(EventsOf(p, "sleep")) = Top(p).retries

C18_ReaperTerminates ==
    /\ [][C18_ReapStep]_vars
    /\ []C18_Attempts
    /\ <>(stack[1] = <<>>)

\* four strict attempts failed, the best-effort call did not raise: success
C18_Witness ==
    /\ Done(1) /\ Has(1, "uninstalled")
    /\ Cardinality(EventsOf(1, "sleep")) = MaxRetries
    /\ \E i \in EventsOf(1, "reap_last") : out[1][i].b = <<"remains">>

\* no strict attempt at all with retries = 0
C18_WitnessZero ==
    /\ Done(1) /\ EventsOf(1, "reap") = {} /\ EventsOf(1, "reap_last") # {}

(***************************************************************************)
(* C19. The commands the manifest declares are attempted one at a time, in *)
(* the declared order. A command with a destructive keyword (in either     *)
(* case) reaches the command runner only right after the answer "y" to the *)
(* confirmation asked for that command. A command that is declined or that *)
(* fails does not stop the later ones: an install that has started on its  *)
(* commands attempts all of them and goes on to its registry commit.       *)
(***************************************************************************)
DeclaredCommands(p) ==
    LET url == normalize_repo_url(call[p][2])
    IN parse_options(remote[<<url[Len(url)]>>].opt).commands.items

\* the own "cmd" events of p, in order
OwnCommands(p) == SelectSeq(out[p], LAMBDA e : e.ev = "cmd" /\ e.d = 1)

HasDestructiveKeyword(cmd) ==
    \E i \in DOMAIN cmd : cmd[i] \in {"rm", "RM", "del", "DEL", "format", "taskkill"}

\* the command of event i was handed to the command runner
Ran(p, i) == out[p][i].ev = "cmd" /\ out[p][i].b \in {<<"ok">>, <<"error">>}

C19_CommandsInOrder ==
    \A p \in Procs : IsInstall(p) =>
        /\ OwnCommands(p) # <<>> =>
                /\ Len(OwnCommands(p)) <= Len(DeclaredCommands(p))
                /\ \A k \in DOMAIN OwnCommands(p) :
                        OwnCommands(p)[k].a = DeclaredCommands(p)[k].v
        /\ \A i \in DOMAIN out[p] :
            (Ran(p, i) /\ HasDestructiveKeyword(out[p][i].a)) =>
                /\ i > 1
                /\ out[p][i - 1] = Event("confirm", out[p][i].a, <<"y">>, out[p][i].d)
        /\ \A i \in DOMAIN out[p] :
            (out[p][i].ev = "cmd" /\ out[p][i].b = <<"declined">>) =>
                /\ i > 1
                /\ out[p][i - 1].ev = "confirm" /\ out[p][i - 1].b # <<"y">>
        /\ (Done(p) /\ OwnCommands(p) # <<>>) =>
                /\ Len(OwnCommands(p)) = Len(DeclaredCommands(p))
                /\ Has(p, "installed")
                /\ out[p][Len(out[p])].ev = "installed"

\* the first command, destructive, was declined, the second failed, and the
\* install committed
C19_Witness ==
    /\ Done(1) /\ Has(1, "installed")
    /\ Len(OwnCommands(1)) = 2
    /\ OwnCommands(1)[1].a = <<"RM">> /\ OwnCommands(1)[1].b = <<"declined">>
    /\ OwnCommands(1)[2].b = <<"error">>

\* a destructive command was run, after "y"
C19_WitnessConfirmed ==
    \E i \in DOMAIN out[1] : Ran(1, i) /\ out[1][i].a = <<"RM">>

(***************************************************************************)
(* The registry file in every state a command can find it in: between      *)
(* setup_environment (line 434) and the command's first read, the file is  *)
(* deleted or overwritten from outside. And the list command.              *)
(***************************************************************************)
\* list_packages, lines 421-430; nothing catches what the load raises
ListPackages(p) ==
    /\ At(p, "list", "l_load")
    /\ Emit(p, <<Event(IF LoadRaises(regfile) THEN "crash"
                       ELSE IF get_installed_packages(regfile) = EmptyMap THEN "no_packages"
                       ELSE "listing", <<>>, <<>>, Depth(p))>>)
    /\ Return(p)
    /\ UNCHANGED <<fs, zips, regfile, autostart, remote, call, pre, nops>>

Damaged == {RegAbsent, RegCorrupt, RegUndecodable}

Damage(p) ==
    /\ Depth(p) = 1 /\ Top(p).pc = Entry(Top(p).op)
    /\ regfile.state = "valid"
    /\ \E rf \in Damaged :
        /\ regfile' = rf
        /\ pre' = [pre EXCEPT ![p].regfile = rf]
    /\ UNCHANGED <<fs, zips, autostart, remote, stack, call, out, nops>>

InitDamage ==
    /\ Init
    /\ remote[<<"A">>] \in {ArchPlain, ArchNamed, ArchDeps}

DamageArgvs ==
    {<<<<"list">>>>, <<<<"install">>, <<"A">>>>, <<<<"install">>, <<"B">>>>,
     <<<<"uninstall">>, <<"A">>>>, <<<<"uninstall">>, <<"B">>>>}

MainDamage(p) == Invoke(p, DamageArgvs)

NextDamage ==
    \/ Idle /\ MainDamage(1)
    \/ Damage(1)
    \/ ListPackages(1)
    \/ Step(1)

SpecDamage == InitDamage /\ [][NextDamage]_vars

IsList(p) == call[p] # <<>> /\ call[p][1] = <<"list">>

\* what the claim says of an invocation that found the file in state st
AsEmptyRegistry(p) ==
    /\ \A i \in DOMAIN out[p] : out[p][i].ev \notin {"crash", "uninstall_error"}
    /\ (Done(p) /\ IsList(p)) => out[p] = <<Event("no_packages", <<>>, <<>>, 1)>>
    /\ IsUninstall(p) =>
            /\ regfile = pre[p].regfile
            /\ Done(p) => out[p] = <<Event("not_found", call[p][2], <<>>, 1)>>
    /\ (Done(p) /\ IsInstall(p) /\ Has(p, "moved")) =>
            /\ Has(p, "installed")
            /\ regfile.state = "valid"
            /\ DOMAIN regfile.map = OwnKeys(p) \cup DepKeys(p)

(***************************************************************************)
(* C20. Whatever the registry file is (not there, not parsable, a valid    *)
(* mapping), loading it gives a mapping and raises nothing, the empty      *)
(* mapping in the first two cases. So with a missing or unparsable file    *)
(* list reports no packages, uninstall reports not-found and leaves the    *)
(* file alone, and install goes on as with an empty registry and commits.  *)
(* Refuted: line 289 catches FileNotFoundError and JSONDecodeError only; a *)
(* file whose bytes are not text in the encoding it is opened with raises  *)
(* UnicodeDecodeError from json.load, which ends list with a traceback,    *)
(* uninstall in its handler and install after the move, uncommitted.       *)
(***************************************************************************)
C20_LoadNeverRaises ==
    \A p \in Procs :
        (call[p] # <<>> /\ pre[p].regfile \in Damaged) => AsEmptyRegistry(p)

\* the part of C20 that holds: no file, or text that is not JSON
C20_LoadOfMissingOrInvalidJson ==
    \A p \in Procs :
        (call[p] # <<>> /\ pre[p].regfile \in {RegAbsent, RegCorrupt}) => AsEmptyRegistry(p)

\* ... reached: an install committed over a file that was not JSON, while
\* package directories were on disk
C20_WitnessInstallOverInvalidJson ==
    /\ Done(1) /\ pre[1].regfile = RegCorrupt /\ Has(1, "installed")
    /\ DOMAIN pre[1].fs # {}

(***************************************************************************)
(* Two invocations at once over an empty packages directory, among them    *)
(* two installs of repository A under different names.                     *)
(***************************************************************************)
InitStage ==
    /\ Init
    /\ remote = RemotePlain

StageArgvs ==
    {<<<<"install">>, <<"A">>>>, <<<<"install">>, <<"A">>, <<"--name">>, <<"Y">>>>,
     <<<<"install">>, <<"B">>>>, <<<<"uninstall">>, <<"A">>>>}

MainStage(p) == Invoke(p, StageArgvs)

NextStage ==
    \/ MainStage(1)
    \/ MainStage(2)
    \/ Step(1)
    \/ Step(2)

SpecStage == InitStage /\ [][NextStage]_vars

\* from the removal of a stale staging directory (line 335) to the move (line
\* 363) or the abort that removes it, the staging directory is the call's own
StagingPcs == {"fetch", "extract", "parse", "official", "downloadable", "resolve", "move"}

Staging(q) == stack[q] # <<>> /\ Top(q).op = "install" /\ Top(q).pc \in StagingPcs

\* directory t is created, removed, renamed or given other content
Touched(t) ==
    \/ (t \in DOMAIN fs) # (t \in DOMAIN fs')
    \/ t \in DOMAIN fs /\ t \in DOMAIN fs' /\ fs[t] # fs'[t]

SameRepo(p, q) == Top(p).op = "install" /\ Top(p).repo_name = Top(q).repo_name

C21_StageStep ==
    \A p \in Procs : \A q \in Procs \ {p} :
        (stack[p] # <<>> /\ stack'[p] # stack[p] /\ Staging(q)) =>
            ~Touched(TempDir(Top(q).repo_name))

C21_OtherRepoStep ==
    \A p \in Procs : \A q \in Procs \ {p} :
        (stack[p] # <<>> /\ stack'[p] # stack[p] /\ Staging(q) /\ ~SameRepo(p, q)) =>
            ~Touched(TempDir(Top(q).repo_name))

(***************************************************************************)
(* C21. An install's staging directory is its own while it runs: no step   *)
(* of another invocation running at the same time creates, removes,        *)
(* replaces or moves it, two installs of one repository under different    *)
(* names included.                                                         *)
(* Refuted: the staging path is PACKAGES_DIR / temp_<repo_name> (line 332) *)
(* and has nothing of the invocation or of the package name in it. With    *)
(* "install A" and "install A --name Y" at once, the second's line 335     *)
(* removes the directory the first has fetched, and either's line 363      *)
(* moves away the directory the other is about to parse or move.           *)
(***************************************************************************)
C21_StagingNotShared == [][C21_StageStep]_vars

\* the part of C21 that holds: invocations that are not installs of the same
\* repository name leave each other's staging directory alone
C21_StagingOfOtherRepoUntouched == [][C21_OtherRepoStep]_vars

\* ... reached: installs of A and of B both between fetch and move, each with
\* its staging directory on disk
C21_WitnessTwoStagings ==
    /\ Staging(1) /\ Staging(2)
    /\ Top(1).repo_name = <<"A">> /\ Top(2).repo_name = <<"B">>
    /\ TempDir(<<"A">>) \in DOMAIN fs /\ TempDir(<<"B">>) \in DOMAIN fs

\* ... and what the sharing leads to: "install A" and "install A --name Y" at
\* once, the second removes as stale the directory the first has staged, and
\* the first ends in its handler with nothing to move
C21_WitnessStagingTaken ==
    /\ Done(1) /\ Done(2)
    /\ call[1] = <<<<"install">>, <<"A">>>>
    /\ call[2] = <<<<"install">>, <<"A">>, <<"--name">>, <<"Y">>>>
    /\ Has(1, "extracted") /\ Has(1, "critical") /\ ~Has(1, "moved")
    /\ Has(2, "rmtree") /\ Has(2, "extracted") /\ Has(2, "installed")
    /\ DOMAIN fs = {<<"Y">>}

(***************************************************************************)
(* C22. An install leaves alone the directory of every other package that  *)
(* is installed and registered: a step of an install call that will put    *)
(* its package under pkg_name neither removes nor changes directory N for  *)
(* any registered N other than pkg_name, names temp_<repo> included.       *)
(* Refuted: after "install B --name temp_A" has installed and registered   *)
(* package temp_A, "install A" takes PACKAGES_DIR / temp_A for a stale     *)
(* staging directory and removes it (lines 334-335); the registry keeps    *)
(* the entry.                                                              *)
(***************************************************************************)
\* the packages installed and registered
Installed == DOMAIN fs \cap DOMAIN get_installed_packages(regfile)

Kept(n) == n \in DOMAIN fs' /\ fs'[n] = fs[n]

C22_InstallStep ==
    \A p \in Procs :
        (stack[p] # <<>> /\ stack'[p] # stack[p] /\ Top(p).op = "install") =>
            \A n \in Installed \ {Top(p).pkg_name} : Kept(n)

C22_InstallKeepsOtherPackages == [][C22_InstallStep]_vars

C22_InstallStepUnlessStaging ==
    \A p \in Procs :
        (stack[p] # <<>> /\ stack'[p] # stack[p] /\ Top(p).op = "install") =>
            \A n \in Installed \ {Top(p).pkg_name, TempDir(Top(p).repo_name)} : Kept(n)

\* the part of C22 that holds: registered names other than the staging path
\* of the repository being installed
C22_InstallKeepsOtherPackagesUnlessStaging == [][C22_InstallStepUnlessStaging]_vars

\* ... reached: with Y installed and registered, an install has committed
\* another name, and Y is as it was
C22_WitnessOtherKept ==
    /\ Done(1) /\ IsInstall(1) /\ Has(1, "installed") /\ ~ResolvedTo(1, <<"Y">>)
    /\ <<"Y">> \in DOMAIN pre[1].fs \cap DOMAIN pre[1].regfile.map
    /\ <<"Y">> \in Installed /\ fs[<<"Y">>] = pre[1].fs[<<"Y">>]

\* and the state the refutation ends in: temp_A registered, its directory
\* gone, after an install of A that committed A
C22_WitnessRegisteredDirectoryRemoved ==
    /\ Done(1) /\ call[1] = <<<<"install">>, <<"A">>>> /\ Has(1, "installed")
    /\ TempDir(<<"A">>) \in DOMAIN pre[1].fs \cap DOMAIN pre[1].regfile.map
    /\ TempDir(<<"A">>) \in DOMAIN regfile.map
    /\ TempDir(<<"A">>) \notin DOMAIN fs

(***************************************************************************)
(* C23. When uninstall(N) takes key N out of the registry, the directory   *)
(* the entry records is not on disk: an entry is never dropped while its   *)
(* directory remains, also when every strict attempt of the reaper failed  *)
(* and only the last, best-effort delete ran.                              *)
(* Refuted: the best-effort delete is shutil.rmtree(path,                  *)
(* ignore_errors=True) followed by return True (lines 263-265). It         *)
(* swallows the errors the strict attempts raised, so force_remove reports *)
(* success with the tree still there, and lines 409-412 drop the entry.    *)
(***************************************************************************)
\* a step of p takes key n out of the registry file
Drops(p, n) ==
    /\ stack[p] # <<>> /\ stack'[p] # stack[p] /\ Top(p).op = "uninstall"
    /\ n \in DOMAIN get_installed_packages(regfile)
    /\ n \notin DOMAIN get_installed_packages(regfile')

\* the reaper of p came to its best-effort delete, which left the tree
BestEffortLeftTree(p) ==
    \E i \in DOMAIN out[p] : out[p][i].ev = "reap_last" /\ out[p][i].b = <<"remains">>

C23_DropStep ==
    \A p \in Procs : \A n \in DOMAIN get_installed_packages(regfile) :
        Drops(p, n) => ~Exists(fs', regfile.map[n].path)

C23_EntryDroppedOnlyWhenDirectoryGone == [][C23_DropStep]_vars

C23_DropStepStrict ==
    \A p \in Procs : \A n \in DOMAIN get_installed_packages(regfile) :
        (Drops(p, n) /\ ~BestEffortLeftTree(p)) => ~Exists(fs', regfile.map[n].path)

\* the part of C23 that holds: an entry dropped after a delete that removed
\* the tree, or after the directory was found missing
C23_EntryDroppedAfterRemoval == [][C23_DropStepStrict]_vars

\* ... reached: two strict attempts raised, the third removed the tree, and
\* the entry was dropped
C23_WitnessRemovedOnRetry ==
    /\ Done(1) /\ IsUninstall(1) /\ Has(1, "uninstalled")
    /\ Cardinality(EventsOf(1, "sleep")) = 2
    /\ call[1][2] \in DOMAIN pre[1].fs
    /\ call[1][2] \notin DOMAIN fs /\ call[1][2] \notin DOMAIN regfile.map

\* and the state the refutation ends in: uninstall reported, the entry gone,
\* the directory still there
C23_WitnessUnregisteredDirectoryLeft ==
    /\ Done(1) /\ IsUninstall(1) /\ Has(1, "uninstalled") /\ BestEffortLeftTree(1)
    /\ call[1][2] \in DOMAIN fs /\ call[1][2] \notin DOMAIN regfile.map

(***************************************************************************)
(* References validate_repo_url accepts, in every spelling: the bare name, *)
(* the URL normalize_repo_url makes of it, a URL with a third path         *)
(* segment, one with a trailing slash, and one on a host that ends with    *)
(* github.com.                                                             *)
(***************************************************************************)
UrlDeep == BASE_GITHUB_URL \o <<"/">> \o ALLOWED_ORG \o <<"/", "X", "/", "A">>

UrlTrailingSlash == UrlA \o <<"/">>

UrlInputs == {<<"A">>, <<"B">>, UrlA, UrlDeep, UrlTrailingSlash, UrlEvilSuffix}

UrlArgvs ==
    {<<<<"install">>, r>> : r \in UrlInputs} \cup {<<<<"uninstall">>, n>> : n \in {<<"A">>, <<"X">>}}

MainUrls(p) == Invoke(p, UrlArgvs)

NextUrls ==
    \/ Idle /\ MainUrls(1)
    \/ Step(1)

SpecUrls == Init /\ [][NextUrls]_vars

\* f"{repo}/archive/refs/heads/main.zip"
ArchiveOf(repo) == repo \o <<"/", "archive", "/", "refs", "/", "heads", "/", "main.zip">>

\* the requests of the call on top of p's stack
Requests(p) == {j \in DOMAIN out[p] : out[p][j].ev = "get" /\ out[p][j].d = Depth(p)}

\* the URL the call on top of p's stack requested (its one request is the
\* last of its depth)
Fetched(p) == out[p][CHOOSE j \in Requests(p) : \A k \in Requests(p) : k <= j].a

\* a step of p writes entry n of the registry file
Registers(p, n) ==
    /\ stack[p] # <<>> /\ stack'[p] # stack[p] /\ Top(p).op = "install"
    /\ regfile' # regfile
    /\ n = Top(p).pkg_name

\* the reference is a bare name, or https://github.com/Liqueur-Manager/<name>
Canonical(r) ==
    LET org == BASE_GITHUB_URL \o <<"/">> \o ALLOWED_ORG \o <<"/">>
        name == IF StartsWith(r, org) THEN SubSeq(r, Len(org) + 1, Len(r)) ELSE r
    IN /\ ~IsFullUrl(r) \/ StartsWith(r, org)
       /\ name # <<>>
       /\ \A i \in DOMAIN name : name[i] # "/"

C24_RegisterStep ==
    \A p \in Procs : \A n \in PkgNames :
        Registers(p, n) =>
            /\ Requests(p) # {}
            /\ Fetched(p) = ArchiveOf(regfile'.map[n].repo_url)

C24_RegisterStepCanonical ==
    \A p \in Procs : \A n \in PkgNames :
        (Registers(p, n) /\ Canonical(Top(p).arg)) =>
            /\ Requests(p) # {}
            /\ Fetched(p) = ArchiveOf(regfile'.map[n].repo_url)
            /\ regfile'.map[n].repo_url = normalize_repo_url(Top(p).arg)

(***************************************************************************)
(* C24. The repo_url of every registry entry install writes names the      *)
(* repository the installed archive came from: the URL requested was       *)
(* repo_url + "/archive/refs/heads/main.zip", for every reference that is  *)
(* accepted, a bare name or a full URL in any accepted spelling.           *)
(* Refuted: the entry records the normalized reference as given (lines     *)
(* 326, 382), while download_repo builds its URL from BASE_GITHUB_URL,     *)
(* ALLOWED_ORG and the last path segment alone (lines 223, 331). For       *)
(* https://github.com/Liqueur-Manager/X/A and for                          *)
(* https://evilgithub.com/Liqueur-Manager/A the archive of                 *)
(* https://github.com/Liqueur-Manager/A is installed and the entry names   *)
(* the other URL.                                                          *)
(***************************************************************************)
C24_EntryNamesFetchedRepository == [][C24_RegisterStep]_vars

\* the part of C24 that holds: bare names and URLs of the form
\* https://github.com/Liqueur-Manager/<name>
C24_EntryNamesFetchedRepositoryCanonical == [][C24_RegisterStepCanonical]_vars

\* ... reached: packages installed from a bare name and from its URL
C24_WitnessCanonical ==
    /\ Done(1) /\ call[1] = <<<<"install">>, UrlA>> /\ Has(1, "installed")
    /\ <<"A">> \in Installed /\ regfile.map[<<"A">>].repo_url = UrlA
    /\ <<"B">> \in Installed /\ regfile.map[<<"B">>].repo_url = normalize_repo_url(<<"B">>)

\* and the state the refutation ends in, for a URL with a third path segment
C24_WitnessEntryNamesOtherRepository ==
    /\ Done(1) /\ call[1] = <<<<"install">>, UrlDeep>> /\ Has(1, "installed")
    /\ <<"A">> \in Installed /\ regfile.map[<<"A">>].repo_url = UrlDeep
    /\ \E i \in Own(1) : out[1][i].ev = "get" /\ out[1][i].a = ArchiveOf(UrlA)

====
